---------------------------- MODULE Spec2Model ----------------------------
(***************************************************************************)
(* A model of haystack's WeaviateDocumentStore                             *)
(* (src/haystack/document_stores/weaviate.py): the store's translation     *)
(* layer between the library's documents and a Weaviate backend.           *)
(*                                                                         *)
(* Strings the code inspects character by character (document ids, index   *)
(* names) are sequences of one-character strings; every other string is an *)
(* opaque TLA+ string.  Python's None is an option record with some=FALSE.  *)
(***************************************************************************)
EXTENDS Integers, Sequences, FiniteSets, TLC

VARIABLES
    schema,       \* the backend's schema: class name -> sequence of properties
    objects,      \* the backend's objects: uuid key -> [class, props, vector]
    uuid_format_warning_raised,   \* self.uuid_format_warning_raised
    rng,          \* the state of numpy's global random generator
    pc,           \* "idle", or "returned" while the caller holds a call's result
    lastCall,     \* the call that has just returned: arguments, backend before, log
    nCalls,       \* operations run so far
    san,          \* the id-normalizer harness (SpecSanitize)
    race          \* two write_documents calls in progress (SpecRace)

vars == <<schema, objects, uuid_format_warning_raised, rng, pc, lastCall, nCalls, san, race>>

storeVars == <<schema, objects, uuid_format_warning_raised, rng, pc, lastCall, nCalls>>

-----------------------------------------------------------------------------
(* Bounds of the model.                                                    *)

\* operations run on one store instance
MaxCalls == 2
\* documents in one write_documents call
MaxDocs == 2

-----------------------------------------------------------------------------
(* Strings.                                                                *)

Range(s) == {s[i] : i \in 1..Len(s)}

Digits == {"0", "1", "2", "3", "4", "5", "6", "7", "8", "9"}
LowerHex == {"a", "b", "c", "d", "e", "f"}
UpperHex == {"A", "B", "C", "D", "E", "F"}

\* the hexadecimal digits of the canonical UUID grammar, in either case
CanonicalHexDigits == Digits \cup LowerHex \cup UpperHex

\* decimal digits outside ASCII, which \d matches in a str pattern as it
\* matches 0-9 (650 characters; two stand for them here). A character outside
\* ASCII is written by its code point: ARABIC-INDIC DIGIT THREE and
\* FULLWIDTH DIGIT FIVE
UnicodeDigits == {"U+0663", "U+FF15"}

\* the characters [\da-f] matches under re.IGNORECASE
HexDigits == Digits \cup UnicodeDigits \cup LowerHex \cup UpperHex

LowerLetters == <<"a", "b", "c", "d", "e", "f", "g", "h", "i", "j", "k", "l", "m",
                  "n", "o", "p", "q", "r", "s", "t", "u", "v", "w", "x", "y", "z">>
UpperLetters == <<"A", "B", "C", "D", "E", "F", "G", "H", "I", "J", "K", "L", "M",
                  "N", "O", "P", "Q", "R", "S", "T", "U", "V", "W", "X", "Y", "Z">>
\* the letters of `from` mapped to the letters of `to` at the same place
CaseMap(from, to) ==
    [c \in Range(from) |-> to[CHOOSE i \in 1..Len(from) : from[i] = c]]
ToUpper == CaseMap(LowerLetters, UpperLetters)
ToLower == CaseMap(UpperLetters, LowerLetters)
MapChar(table, c) == IF c \in DOMAIN table THEN table[c] ELSE c

\* str.upper() and str.lower() on one character: a letter changes case, any
\* other character is its own image
upper(c) == MapChar(ToUpper, c)
lower(c) == MapChar(ToLower, c)

\* "".join(x.capitalize() for x in s.split("_")), read left to right: a
\* character that starts a piece (the first, or one after "_") is upper-cased,
\* every other one lower-cased, and the separators are dropped.
RECURSIVE JoinCapitalizedPieces(_, _, _)
JoinCapitalizedPieces(s, i, pieceStart) ==
    IF i > Len(s) THEN <<>>
    ELSE IF s[i] = "_" THEN JoinCapitalizedPieces(s, i + 1, TRUE)
    ELSE <<IF pieceStart THEN upper(s[i]) ELSE lower(s[i])>>
         \o JoinCapitalizedPieces(s, i + 1, FALSE)

\* Python's None, where a sequence (an index name, a list) is optional
None == [some |-> FALSE, val |-> <<>>]
\* Python's None, where an opaque string is optional
NoneText == [some |-> FALSE, val |-> ""]
Some(v) == [some |-> TRUE, val |-> v]


-----------------------------------------------------------------------------
(* Configuration of the store instance (constructor arguments).            *)

\* index: str = "Document"
ConfigIndex == <<"D", "o", "c", "u", "m", "e", "n", "t">>
\* embedding_dim (768 by default; the model's store is built with 2)
embedding_dim == 2
content_field == "content"
name_field == "name"
embedding_field == "embedding"
\* duplicate_documents: str = "overwrite"
ConfigDuplicateDocuments == "overwrite"

-----------------------------------------------------------------------------
(* Identifier normalizer.                                                  *)

\* _sanitize_index_name of a string
sanitize_index_name_str(index) ==
    IF \E i \in 1..Len(index) : index[i] = "_"
    THEN JoinCapitalizedPieces(index, 1, TRUE)
    ELSE <<upper(index[1])>> \o SubSeq(index, 2, Len(index))

\* _sanitize_index_name: None stays None
sanitize_index_name(index) ==
    IF ~index.some THEN None ELSE Some(sanitize_index_name_str(index.val))

\* self.index, set by the constructor
self_index == sanitize_index_name_str(ConfigIndex)

\* `s or self.index`, s an optional class name
OrSelfIndex(s) == IF s.some /\ s.val # <<>> THEN s.val ELSE self_index

\* `self._sanitize_index_name(index) or self.index`
IndexOrDefault(index) == OrSelfIndex(sanitize_index_name(index))

HyphenPositions == {9, 14, 19, 24}

\* the canonical UUID grammar the claims speak of: exactly 8-4-4-4-12
\* hexadecimal digits, either case. It is not the pattern of line 28, which
\* is UUID_PATTERN_match below
IsCanonicalUuid(s) ==
    /\ Len(s) = 36
    /\ \A i \in 1..36 :
          IF i \in HyphenPositions THEN s[i] = "-"
          ELSE s[i] \in CanonicalHexDigits

\* the pattern compiled without re.IGNORECASE: lower-case hexadecimal only
UUID_PATTERN_match_case_sensitive(id) ==
    /\ \/ Len(id) = 36
       \/ Len(id) = 37 /\ id[37] = "\n"
    /\ \A i \in 1..36 :
          IF i \in HyphenPositions THEN id[i] = "-"
          ELSE id[i] \in Digits \cup LowerHex

\* UUID_PATTERN.match(id): ^[\da-f]{8}-([\da-f]{4}-){3}[\da-f]{12}$ with
\* re.IGNORECASE.  Python's $ also matches just before a newline that ends
\* the string.
UUID_PATTERN_match(id) ==
    /\ \/ Len(id) = 36
       \/ Len(id) = 37 /\ id[37] = "\n"
    /\ \A i \in 1..36 :
          IF i \in HyphenPositions THEN id[i] = "-"
          ELSE id[i] \in HexDigits

\* hashlib.sha256(s.encode("utf-8")).hexdigest(), tabulated for the strings
\* id + index the model can form from a non-conforming id and a class name
Sha256Table ==
  { <<<<"d", "o", "c", "-", "1", "D", "o", "c", "u", "m", "e", "n", "t">>,
      <<"4", "5", "8", "7", "4", "a", "7", "5", "a", "7", "b", "c", "b", "d", "9", "f", "4", "d", "4", "1", "f", "3", "c", "9", "b", "5", "8", "d", "8", "c", "c", "3", "a", "8", "6", "f", "d", "2", "9", "e", "b", "a", "4", "a", "b", "5", "0", "1", "c", "f", "9", "6", "7", "9", "2", "6", "a", "b", "7", "7", "f", "e", "a", "9">>>>,
    <<<<"d", "o", "c", "-", "1", "O", "t", "h", "e", "r">>,
      <<"9", "6", "9", "0", "1", "0", "b", "0", "4", "7", "f", "c", "4", "8", "c", "2", "2", "9", "6", "7", "8", "6", "0", "2", "8", "6", "4", "3", "b", "b", "b", "5", "0", "1", "1", "c", "5", "a", "2", "5", "e", "8", "4", "7", "b", "5", "6", "d", "b", "0", "b", "b", "f", "0", "a", "6", "7", "2", "e", "2", "f", "0", "3", "5">>>>,
    <<<<"d", "o", "c", "-", "1", "M", "y", "I", "n", "d", "e", "x">>,
      <<"3", "a", "9", "e", "9", "2", "a", "b", "9", "2", "0", "4", "d", "5", "8", "8", "2", "1", "6", "6", "f", "a", "5", "f", "1", "d", "4", "d", "1", "3", "8", "d", "9", "9", "1", "9", "d", "3", "2", "b", "e", "6", "8", "6", "7", "a", "9", "b", "d", "2", "5", "f", "7", "c", "6", "e", "c", "4", "a", "b", "2", "5", "e", "2">>>>,
    <<<<"d", "o", "c", "-", "2", "D", "o", "c", "u", "m", "e", "n", "t">>,
      <<"f", "6", "f", "1", "e", "8", "6", "1", "6", "a", "b", "b", "f", "c", "f", "a", "9", "6", "6", "3", "7", "f", "5", "d", "d", "8", "9", "8", "8", "1", "c", "4", "e", "c", "8", "1", "7", "c", "2", "2", "6", "d", "7", "0", "6", "5", "8", "c", "a", "4", "0", "b", "9", "b", "6", "f", "1", "3", "7", "2", "9", "0", "c", "5">>>>,
    <<<<"d", "o", "c", "-", "2", "O", "t", "h", "e", "r">>,
      <<"f", "7", "6", "b", "8", "1", "4", "2", "9", "9", "0", "5", "5", "9", "6", "7", "b", "4", "6", "4", "4", "a", "0", "1", "c", "b", "8", "e", "d", "d", "6", "8", "1", "d", "2", "a", "7", "6", "6", "3", "8", "e", "d", "8", "1", "1", "f", "3", "7", "0", "a", "d", "6", "1", "4", "1", "6", "4", "5", "4", "7", "6", "1", "0">>>>,
    <<<<"d", "o", "c", "-", "2", "M", "y", "I", "n", "d", "e", "x">>,
      <<"8", "d", "1", "8", "4", "8", "f", "f", "f", "a", "6", "4", "a", "6", "1", "a", "e", "2", "6", "5", "9", "a", "1", "3", "4", "7", "c", "e", "5", "f", "3", "a", "e", "3", "a", "d", "4", "b", "0", "5", "9", "f", "4", "5", "6", "3", "d", "5", "5", "8", "8", "f", "1", "b", "c", "0", "2", "1", "8", "3", "c", "9", "4", "6">>>>,
    <<<<"D", "o", "c", "u", "m", "e", "n", "t">>,
      <<"d", "6", "b", "d", "8", "c", "0", "a", "e", "e", "e", "8", "0", "f", "e", "d", "b", "2", "d", "b", "f", "0", "5", "c", "9", "7", "3", "1", "0", "0", "c", "3", "d", "b", "0", "4", "b", "e", "9", "0", "c", "0", "7", "2", "a", "8", "8", "5", "7", "2", "5", "3", "3", "f", "2", "6", "8", "4", "1", "3", "1", "a", "3", "6">>>>,
    <<<<"O", "t", "h", "e", "r">>,
      <<"f", "9", "7", "e", "9", "d", "a", "0", "e", "3", "b", "8", "7", "9", "f", "0", "a", "9", "d", "f", "9", "7", "9", "a", "e", "2", "6", "0", "a", "5", "f", "7", "e", "1", "3", "7", "1", "e", "d", "b", "1", "2", "7", "c", "1", "8", "6", "2", "d", "4", "f", "8", "6", "1", "9", "8", "1", "1", "6", "6", "c", "d", "c", "1">>>>,
    <<<<"M", "y", "I", "n", "d", "e", "x">>,
      <<"9", "a", "f", "9", "b", "9", "2", "f", "f", "7", "8", "8", "5", "d", "b", "e", "e", "b", "f", "8", "b", "c", "7", "d", "2", "3", "d", "1", "7", "c", "8", "f", "4", "a", "5", "a", "f", "b", "5", "a", "2", "c", "3", "a", "5", "3", "4", "b", "b", "5", "2", "e", "2", "6", "a", "f", "0", "6", "a", "c", "7", "d", "d", "9">>>>,
    <<<<"1", "b", "a", "d", "5", "1", "b", "7", "b", "d", "7", "7", "4", "8", "5", "d", "8", "8", "7", "1", "2", "1", "c", "5", "0", "f", "a", "b", "2", "4", "8", "f", "D", "o", "c", "u", "m", "e", "n", "t">>,
      <<"8", "e", "4", "4", "5", "3", "f", "7", "f", "d", "2", "1", "0", "d", "7", "f", "0", "1", "c", "b", "7", "9", "b", "c", "9", "5", "2", "1", "2", "4", "3", "0", "f", "e", "6", "7", "9", "8", "1", "7", "d", "7", "0", "9", "4", "e", "8", "f", "8", "0", "6", "7", "2", "3", "b", "9", "5", "d", "6", "f", "0", "9", "8", "a">>>>,
    <<<<"1", "b", "a", "d", "5", "1", "b", "7", "b", "d", "7", "7", "4", "8", "5", "d", "8", "8", "7", "1", "2", "1", "c", "5", "0", "f", "a", "b", "2", "4", "8", "f", "O", "t", "h", "e", "r">>,
      <<"7", "2", "e", "f", "8", "3", "1", "9", "a", "2", "7", "e", "a", "4", "b", "7", "3", "6", "8", "9", "6", "1", "c", "0", "6", "d", "0", "3", "8", "2", "f", "e", "f", "5", "8", "d", "0", "1", "e", "d", "a", "4", "c", "6", "2", "c", "5", "6", "1", "d", "6", "1", "b", "1", "e", "9", "4", "b", "6", "9", "e", "e", "3", "4">>>>,
    <<<<"1", "b", "a", "d", "5", "1", "b", "7", "b", "d", "7", "7", "4", "8", "5", "d", "8", "8", "7", "1", "2", "1", "c", "5", "0", "f", "a", "b", "2", "4", "8", "f", "M", "y", "I", "n", "d", "e", "x">>,
      <<"8", "c", "3", "0", "c", "2", "0", "2", "2", "6", "6", "e", "e", "2", "b", "0", "0", "5", "4", "e", "f", "f", "0", "0", "c", "5", "6", "4", "f", "0", "b", "f", "7", "0", "8", "a", "b", "e", "6", "2", "7", "5", "9", "d", "b", "8", "e", "a", "b", "2", "5", "d", "0", "b", "8", "6", "3", "c", "7", "9", "9", "1", "c", "1">>>>,
    <<<<"1", "B", "A", "D", "5", "1", "B", "7", "-", "B", "D", "7", "7", "-", "4", "8", "5", "D", "-", "8", "8", "7", "1", "-", "2", "1", "C", "5", "0", "F", "A", "B", "2", "4", "8", "F", "D", "o", "c", "u", "m", "e", "n", "t">>,
      <<"4", "5", "0", "b", "f", "4", "a", "3", "2", "c", "e", "c", "c", "4", "2", "c", "0", "b", "7", "1", "f", "0", "2", "9", "a", "5", "7", "0", "7", "3", "5", "0", "0", "5", "8", "e", "1", "c", "a", "5", "8", "7", "f", "1", "a", "f", "1", "3", "1", "6", "1", "c", "6", "c", "b", "4", "f", "1", "1", "f", "4", "6", "e", "5">>>>,
    <<<<"1", "B", "A", "D", "5", "1", "B", "7", "-", "B", "D", "7", "7", "-", "4", "8", "5", "D", "-", "8", "8", "7", "1", "-", "2", "1", "C", "5", "0", "F", "A", "B", "2", "4", "8", "F", "O", "t", "h", "e", "r">>,
      <<"7", "9", "3", "d", "8", "1", "9", "7", "e", "9", "c", "8", "e", "4", "4", "2", "f", "3", "2", "8", "6", "8", "1", "3", "2", "1", "a", "7", "b", "6", "8", "3", "a", "6", "b", "f", "c", "e", "7", "4", "c", "2", "6", "e", "7", "6", "4", "6", "6", "8", "3", "f", "8", "8", "d", "a", "6", "f", "b", "8", "2", "a", "2", "d">>>>,
    <<<<"1", "B", "A", "D", "5", "1", "B", "7", "-", "B", "D", "7", "7", "-", "4", "8", "5", "D", "-", "8", "8", "7", "1", "-", "2", "1", "C", "5", "0", "F", "A", "B", "2", "4", "8", "F", "M", "y", "I", "n", "d", "e", "x">>,
      <<"b", "4", "d", "b", "0", "d", "f", "1", "f", "4", "1", "2", "b", "a", "e", "f", "a", "5", "9", "6", "f", "9", "2", "4", "6", "4", "5", "a", "2", "7", "a", "9", "e", "2", "4", "2", "1", "7", "d", "0", "2", "2", "1", "8", "4", "c", "1", "3", "6", "f", "4", "3", "b", "4", "4", "f", "e", "a", "1", "d", "e", "4", "d", "4">>>>,
    <<<<"1", "b", "a", "U+0663", "5", "1", "b", "7", "-", "b", "d", "7", "7", "-", "4", "8", "5", "d", "-", "8", "8", "7", "1", "-", "2", "1", "c", "5", "0", "f", "a", "b", "2", "4", "8", "f", "D", "o", "c", "u", "m", "e", "n", "t">>,
      <<"b", "6", "d", "f", "1", "7", "7", "1", "a", "a", "6", "c", "f", "b", "9", "5", "2", "e", "7", "d", "3", "0", "c", "f", "c", "4", "0", "9", "9", "a", "e", "9", "e", "4", "9", "f", "3", "d", "5", "8", "b", "5", "8", "c", "2", "a", "c", "5", "c", "d", "b", "d", "c", "c", "d", "0", "d", "6", "a", "c", "3", "2", "4", "3">>>>,
    <<<<"1", "b", "a", "U+0663", "5", "1", "b", "7", "-", "b", "d", "7", "7", "-", "4", "8", "5", "d", "-", "8", "8", "7", "1", "-", "2", "1", "c", "5", "0", "f", "a", "b", "2", "4", "8", "f", "O", "t", "h", "e", "r">>,
      <<"2", "a", "2", "5", "7", "1", "2", "5", "6", "d", "7", "2", "7", "8", "a", "d", "3", "b", "a", "0", "2", "5", "0", "d", "2", "f", "b", "7", "4", "b", "9", "a", "9", "7", "8", "6", "7", "8", "9", "b", "9", "e", "6", "6", "1", "f", "8", "8", "f", "8", "c", "e", "1", "b", "6", "3", "b", "1", "f", "3", "7", "a", "0", "d">>>>,
    <<<<"1", "b", "a", "U+0663", "5", "1", "b", "7", "-", "b", "d", "7", "7", "-", "4", "8", "5", "d", "-", "8", "8", "7", "1", "-", "2", "1", "c", "5", "0", "f", "a", "b", "2", "4", "8", "f", "M", "y", "I", "n", "d", "e", "x">>,
      <<"5", "1", "8", "0", "2", "4", "2", "2", "3", "c", "8", "e", "6", "e", "9", "1", "4", "6", "a", "b", "1", "9", "a", "e", "1", "c", "8", "9", "2", "a", "7", "1", "8", "d", "7", "4", "6", "2", "f", "d", "4", "a", "0", "f", "4", "5", "a", "e", "b", "b", "f", "b", "0", "c", "4", "b", "4", "2", "c", "5", "3", "c", "9", "8">>>> }

sha256_hexdigest(s) == (CHOOSE row \in Sha256Table : row[1] = s)[2]

\* digest[::2]: every second character, from the first
EverySecond(d) == [i \in 1..(Len(d) + 1) \div 2 |-> d[2 * i - 1]]

\* 32 hexadecimal digits in groups of 8-4-4-4-12
Hyphenate(h) ==
    SubSeq(h, 1, 8) \o <<"-">> \o SubSeq(h, 9, 12) \o <<"-">>
    \o SubSeq(h, 13, 16) \o <<"-">> \o SubSeq(h, 17, 20) \o <<"-">>
    \o SubSeq(h, 21, 32)

\* str(uuid.UUID(hex32)): lower-case hex in groups of 8-4-4-4-12
uuid_str(h) == Hyphenate([i \in 1..Len(h) |-> lower(h[i])])

\* a hash of id + self.index, whatever index the caller names
generated_uuid_without_index(id, index) ==
    uuid_str(EverySecond(sha256_hexdigest(id \o self_index)))

\* the uuid _sanitize_id generates for a non-conforming id
generated_uuid(id, index) ==
    uuid_str(EverySecond(sha256_hexdigest(id \o IndexOrDefault(index))))

\* _sanitize_id(id, index): the id it returns
sanitize_id(id, index) ==
    IF ~UUID_PATTERN_match(id) THEN generated_uuid(id, index) ELSE id

\* _sanitize_id(id, index): self.uuid_format_warning_raised after the call
sanitize_id_flag(id, flag) == flag \/ ~UUID_PATTERN_match(id)

\* a warning for every non-conforming id, whatever the flag
sanitize_id_warnings_each_time(id, flag) ==
    IF ~UUID_PATTERN_match(id) THEN 1 ELSE 0

\* _sanitize_id(id, index): warnings it logs (0 or 1)
sanitize_id_warnings(id, flag) ==
    IF ~UUID_PATTERN_match(id) /\ ~flag THEN 1 ELSE 0


-----------------------------------------------------------------------------
(* The id-normalizer harness: _sanitize_id applied to an id under two index *)
(* arguments, and once more to its own output.                              *)

Uuid1 == <<"1", "b", "a", "d", "5", "1", "b", "7", "-", "b", "d", "7", "7", "-", "4", "8", "5", "d", "-", "8", "8", "7", "1", "-", "2", "1", "c", "5", "0", "f", "a", "b", "2", "4", "8", "f">>
Uuid1Upper == [i \in 1..Len(Uuid1) |-> upper(Uuid1[i])]
Uuid1Newline == Uuid1 \o <<"\n">>
\* Uuid1 with the digit at its fourth place replaced by a digit outside ASCII
Uuid1Arabic == [Uuid1 EXCEPT ![4] = "U+0663"]
Hex32 == SelectSeq(Uuid1, LAMBDA c : c # "-")
IdDoc1 == <<"d", "o", "c", "-", "1">>
IdDoc2 == <<"d", "o", "c", "-", "2">>
IdEmpty == <<>>

SanitizeIds == {IdDoc1, IdDoc2, IdEmpty, Hex32, Uuid1, Uuid1Upper, Uuid1Newline, Uuid1Arabic}

SanitizeIndexArgs ==
    {None, Some(<<"d", "o", "c", "u", "m", "e", "n", "t">>),
     Some(<<"D", "o", "c", "u", "m", "e", "n", "t">>),
     Some(<<"o", "t", "h", "e", "r">>),
     Some(<<"m", "y", "_", "i", "n", "d", "e", "x">>)}

SanitizeIdle == [pc |-> "off", id |-> <<>>, index1 |-> None, index2 |-> None,
                 out1 |-> <<>>, out2 |-> <<>>, again |-> <<>>, warnings |-> 0]

\* no write_documents call in progress
RaceIdle == [writer |-> <<>>, overlapped |-> FALSE]

-----------------------------------------------------------------------------
(* Values, vectors and documents.                                          *)

\* a Python value of a meta field: t is its type (str, int, float, bool,
\* list), s its text when scalar, l its elements when a list
Str(s) == [t |-> "str", s |-> s, l |-> <<>>]

\* an embedding: its elements, and whether it has been divided by its norm
Vec(elems) == [elems |-> elems, unit |-> FALSE]
NoneVector == [some |-> FALSE, val |-> Vec(<<>>)]

\* BaseDocumentStore.normalize_embedding: L2-normalizes in place, leaving a
\* zero-norm vector as it is
normalize_embedding(v) ==
    IF \A i \in 1..Len(v.elems) : v.elems[i] = 0 THEN v
    ELSE [v EXCEPT !.unit = TRUE]

\* numpy's generator has one of two states, and a draw moves it to the other
RngStates == {0, 1}
rng_after(seed, draws) == (seed + draws) % 2

\* np.random.rand(dim).astype(np.float32), the k-th draw of a generator that
\* was in state `seed`: elements are 1 or 2 (tenths)
np_random_rand(seed, k, dim) == Vec([i \in 1..dim |-> 1 + ((seed + k + i) % 2)])

\* json.dumps / json.loads of a content string
json_dumps(c) == "\"" \o c \o "\""
Contents == {"text_1", "text_2"}
json_loads(s) == CHOOSE c \in Contents : json_dumps(c) = s

\* json.dumps of a scalar value: a string in quotes, a bool as true or false,
\* a number as it is written
json_dumps_scalar(value) ==
    IF value.t = "str" THEN json_dumps(value.s)
    ELSE IF value.t = "bool" THEN (IF value.s = "True" THEN "true" ELSE "false")
    ELSE value.s

RECURSIVE json_dumps_value(_)
RECURSIVE json_dumps_items(_, _)

\* the items of a list from the i-th on, as json.dumps writes them
json_dumps_items(l, i) ==
    IF i > Len(l) THEN ""
    ELSE json_dumps_value(l[i])
         \o (IF i < Len(l) THEN ", " ELSE "")
         \o json_dumps_items(l, i + 1)

\* json.dumps of a value: a scalar, or a list of values (a table is a list
\* of lists)
json_dumps_value(value) ==
    IF value.t = "list" THEN "[" \o json_dumps_items(value.l, 1) \o "]"
    ELSE json_dumps_scalar(value)

\* convert_date_to_rfc3339: the strings it parses, and its result
ParseableDates == {"2020-01-01"}
convert_date_to_rfc3339(s) == s \o "T00:00:00Z"

\* str() of a string value that is used as an id: its characters
IdTexts == {<<"1bad51b7-bd77-485d-8871-21c50fab248f", Uuid1>>, <<"doc-2", IdDoc2>>}
str_chars(value) == (CHOOSE row \in IdTexts : row[1] = value.s)[2]

\* a meta dict is the sequence of its items, in insertion order
MetaKeys(meta) == [i \in 1..Len(meta) |-> meta[i].key]
MetaGet(meta, k) == meta[CHOOSE i \in 1..Len(meta) : meta[i].key = k].value

-----------------------------------------------------------------------------
(* Schema registry mirror, over the backend's schema `sch`.                *)

DefaultProperties ==
    <<[name |-> name_field, dataType |-> "string"],
      [name |-> content_field, dataType |-> "text"]>>

\* weaviate_client.schema.contains(schema), for the default schema of a
\* class: the class is there with the default schema's properties
schema_contains(sch, class) ==
    /\ class \in DOMAIN sch
    /\ \A i \in 1..Len(DefaultProperties) :
          \E j \in 1..Len(sch[class]) : sch[class][j].name = DefaultProperties[i].name

\* lines 215-216: the default schema of `class` is created unless the backend
\* holds it
schema_create_if_missing(sch, class) ==
    IF ~schema_contains(sch, class) THEN (class :> DefaultProperties) @@ sch ELSE sch

\* _create_schema_and_index_if_not_exist(index): the schema afterwards
create_schema_and_index_if_not_exist(sch, index) ==
    schema_create_if_missing(sch, IndexOrDefault(index))

\* the properties of the class_item whose "class" is `class`, if there is one
class_properties(sch, class) == IF class \in DOMAIN sch THEN sch[class] ELSE <<>>

\* [item["name"] for item in properties]
property_names(properties) == [i \in 1..Len(properties) |-> properties[i].name]

\* a snapshot that holds the default properties, whatever the backend has
get_current_properties_as_created(sch, index) == property_names(DefaultProperties)

\* _get_current_properties(index)
get_current_properties(sch, index) ==
    property_names(class_properties(sch, IndexOrDefault(index)))

\* _get_date_properties(index)
get_date_properties(sch, index) ==
    property_names(SelectSeq(class_properties(sch, IndexOrDefault(index)),
                             LAMBDA item : item.dataType = "date"))

\* isinstance(value, int): a Python bool is an int
isinstance_int(value) == value.t \in {"int", "bool"}

\* _get_weaviate_type_of_value(value)
get_weaviate_type_of_value(value) ==
    LET list_of_values == value.t = "list"
        x == IF list_of_values THEN value.l[1] ELSE value
        data_type ==
            IF x.t = "str"
            THEN IF x.s \in ParseableDates THEN "date" ELSE "string"
            ELSE IF isinstance_int(x) THEN "int"
            ELSE IF x.t = "float" THEN "number"
            ELSE IF x.t = "bool" THEN "boolean"
            ELSE ""
    IN  IF list_of_values THEN data_type \o "[]" ELSE data_type

\* weaviate_client.schema.property.create(class, property): refused when the
\* class is missing or already has a property of that name
property_create_ok(sch, class, name) ==
    /\ class \in DOMAIN sch
    /\ \A i \in 1..Len(sch[class]) : sch[class][i].name # name

\* a property creation that rebuilds the class from the default properties
\* and the new one, losing the properties added before
update_schema_resetting(sch, new_prop, property_value, index) ==
    [sch EXCEPT ![IndexOrDefault(index)] =
        Append(DefaultProperties,
               [name |-> new_prop,
                dataType |-> get_weaviate_type_of_value(property_value)])]

\* _update_schema(new_prop, property_value, index): the schema afterwards
update_schema(sch, new_prop, property_value, index) ==
    [sch EXCEPT ![IndexOrDefault(index)] =
        Append(@, [name |-> new_prop,
                   dataType |-> get_weaviate_type_of_value(property_value)])]

\* _check_document(cur_props, doc): the keys of doc that cur_props lacks
check_document(cur_props, keys) ==
    SelectSeq(keys, LAMBDA item : item \notin Range(cur_props))

\* a property creation that leaves the snapshot of the call as it was
create_missing_property_forgetting(st, property, value, class, index) ==
    IF ~property_create_ok(st.schema, class, property)
    THEN [st EXCEPT !.outcome = "UnexpectedStatusCodeException",
                    !.propCreates = Append(@, <<class, property>>)]
    ELSE [schema |-> update_schema(st.schema, property, value, index),
          current_properties |-> st.current_properties,
          propCreates |-> Append(st.propCreates, <<class, property>>),
          outcome |-> "ok"]

\* lines 514-515, `self._update_schema(property, value, index);
\* current_properties.append(property)`, on st = [schema,
\* current_properties, propCreates, outcome]; class is the class index names
create_missing_property(st, property, value, class, index) ==
    IF ~property_create_ok(st.schema, class, property)
    THEN [st EXCEPT !.outcome = "UnexpectedStatusCodeException",
                    !.propCreates = Append(@, <<class, property>>)]
    ELSE [schema |-> update_schema(st.schema, property, value, index),
          current_properties |-> Append(st.current_properties, property),
          propCreates |-> Append(st.propCreates, <<class, property>>),
          outcome |-> "ok"]

\* lines 512-515, `for property in missing_props: ...`; values[k] is the value
\* the document holds under k
RECURSIVE ExtendSchema(_, _, _, _, _)
ExtendSchema(st, missing_props, i, values, index) ==
    IF i > Len(missing_props) \/ st.outcome # "ok" THEN st
    ELSE ExtendSchema(
           create_missing_property(st, missing_props[i], values[missing_props[i]],
                                   IndexOrDefault(index), index),
           missing_props, i + 1, values, index)

-----------------------------------------------------------------------------
(* Backend objects `objs`: uuid key -> [class, properties, vector].         *)

\* weaviate_client.data_object.get_by_id(id, with_vector=True): found or not
get_by_id_found(objs, id) == id \in DOMAIN objs

\* a lookup that returns every found document once, however often it is asked
get_documents_by_id_ids_once(objs, ids, index) ==
    LET sanitized == [i \in 1..Len(ids) |-> sanitize_id(ids[i], index)]
        F[i \in 0..Len(ids)] ==
            IF i = 0 THEN <<>>
            ELSE IF get_by_id_found(objs, sanitized[i]) /\ sanitized[i] \notin Range(F[i - 1])
            THEN Append(F[i - 1], sanitized[i])
            ELSE F[i - 1]
    IN  F[Len(ids)]

\* get_documents_by_id(ids, index): the ids of the documents it returns, in
\* order (each id is sanitized, then fetched on its own)
get_documents_by_id_ids(objs, ids, index) ==
    LET sanitized == [i \in 1..Len(ids) |-> sanitize_id(ids[i], index)]
    IN  SelectSeq(sanitized, LAMBDA id : get_by_id_found(objs, id))

\* weaviate_client.batch.create(docs_batch): every object of the batch is
\* stored under its uuid (replacing an object already there) unless the
\* backend reports an error for it; `failing` are the uuids it refuses
RECURSIVE batch_create(_, _, _, _)
batch_create(objs, docs_batch, i, failing) ==
    IF i > Len(docs_batch) THEN objs
    ELSE LET o == docs_batch[i]
             stored == [class |-> o.class_name, properties |-> o.data_object,
                        vector |-> o.vector]
         IN  batch_create(
                IF o.uuid \in failing THEN objs
                ELSE (o.uuid :> stored) @@ objs,
                docs_batch, i + 1, failing)

\* error messages batch.create returns for a batch: one per refused object
batch_errors(docs_batch, failing) ==
    Cardinality({i \in 1..Len(docs_batch) : docs_batch[i].uuid \in failing})

-----------------------------------------------------------------------------
(* Write pipeline.                                                         *)

duplicate_documents_options == {"skip", "overwrite", "fail"}

\* BaseDocumentStore._drop_duplicate_documents: the first document of each
\* id is kept
drop_duplicate_documents(documents) ==
    LET keep == {i \in 1..Len(documents) :
                    \A j \in 1..(i - 1) : documents[j].id # documents[i].id}
        F[i \in 0..Len(documents)] ==
            IF i = 0 THEN <<>>
            ELSE IF i \in keep THEN Append(F[i - 1], documents[i]) ELSE F[i - 1]
    IN  F[Len(documents)]

\* [doc.id for doc in documents]
document_ids(documents) == [i \in 1..Len(documents) |-> documents[i].id]

\* BaseDocumentStore._handle_duplicate_documents, once the ids that exist in
\* the store are known: raise under fail, or drop the documents of those ids
drop_existing_documents(documents, ids_exist_in_db, duplicate_documents) ==
    IF ids_exist_in_db # {} /\ duplicate_documents = "fail"
    THEN [documents |-> <<>>, outcome |-> "DuplicateDocumentError"]
    ELSE [documents |-> SelectSeq(documents, LAMBDA d : d.id \notin ids_exist_in_db),
          outcome |-> "ok"]

\* BaseDocumentStore._handle_duplicate_documents, on documents of different
\* ids: the documents found by id in the store are the existing ones
handle_unique_documents(objs, documents, index, duplicate_documents) ==
    drop_existing_documents(
        documents,
        Range(get_documents_by_id_ids(objs, document_ids(documents), index)),
        duplicate_documents)

\* BaseDocumentStore._handle_duplicate_documents: [documents, outcome]
handle_duplicate_documents(objs, documents, index, duplicate_documents) ==
    IF duplicate_documents \in {"skip", "fail"}
    THEN handle_unique_documents(objs, drop_duplicate_documents(documents), index,
                                 duplicate_documents)
    ELSE [documents |-> documents, outcome |-> "ok"]

\* lines 473-476: the k-th document without an embedding gets the k-th draw
fill_dummy_embeddings(documents, seed) ==
    [i \in 1..Len(documents) |->
        IF documents[i].embedding.some THEN documents[i]
        ELSE [documents[i] EXCEPT !.embedding =
                Some(np_random_rand(
                       seed,
                       Cardinality({j \in 1..i : ~documents[j].embedding.some}),
                       embedding_dim))]]

\* the warning without its once-per-call guard: one per substituted vector
dummy_embed_warnings_per_document(documents) ==
    Cardinality({i \in 1..Len(documents) : ~documents[i].embedding.some})

\* lines 477-483: dummy-embedding warnings logged by one call
dummy_embed_warnings(documents) ==
    IF \E i \in 1..Len(documents) : ~documents[i].embedding.some THEN 1 ELSE 0

\* lines 490-500: the keys of _doc in dict order at line 511. to_dict gives
\* content, content_type, id, meta, score and the embedding; score is popped,
\* the meta items are unnested over them (a meta item named as a key of _doc
\* takes its place, lines 496-497), and then meta, id and the embedding are
\* popped
wire_keys(doc) ==
    <<"content", "content_type">>
    \o SelectSeq(MetaKeys(doc.meta),
                 LAMBDA k : k \notin {"content", "content_type", "id", "meta", "embedding"})

\* lines 490-507: _doc itself; content (the document's, or the meta item of
\* that name that replaced it) is stored as its JSON string
wire_props(doc) ==
    LET unnested ==
            [k \in Range(wire_keys(doc)) |->
                IF k \in Range(MetaKeys(doc.meta)) THEN MetaGet(doc.meta, k)
                ELSE IF k = "content" THEN Str(doc.content)
                ELSE Str("text")]
    IN  [unnested EXCEPT !["content"] = Str(json_dumps_value(@))]

\* line 499: doc_id = str(_doc.pop("id")), which is the meta item named id
\* when the document has one, and the document's sanitized id otherwise
doc_id(doc) ==
    IF "id" \in Range(MetaKeys(doc.meta)) THEN str_chars(MetaGet(doc.meta, "id"))
    ELSE doc.id

\* lines 500-504: vector = _doc.pop(self.embedding_field) is the document's
\* embedding unless a meta item has that name; normalize_embedding raises on
\* a meta value
vector_is_embedding(doc) == "embedding" \notin Range(MetaKeys(doc.meta))

\* lines 518-520: every date property of the schema is read from _doc and
\* converted; st is [props, outcome]
RECURSIVE coerce_dates(_, _, _)
coerce_dates(st, date_fields, i) ==
    IF i > Len(date_fields) \/ st.outcome # "ok" THEN st
    ELSE LET date_field == date_fields[i]
         IN  IF date_field \notin DOMAIN st.props
             THEN [st EXCEPT !.outcome = "KeyError"]
             ELSE IF st.props[date_field].t # "str"
             THEN [st EXCEPT !.outcome = "TypeError"]
             ELSE IF st.props[date_field].s \notin ParseableDates
             THEN [st EXCEPT !.outcome = "ValueError"]
             ELSE coerce_dates(
                    [st EXCEPT !.props[date_field] =
                        Str(convert_date_to_rfc3339(@.s))],
                    date_fields, i + 1)

\* lines 511-515, for one document of a batch: the properties its keys lack
\* are created; acc is [schema, current_properties, propCreates, outcome,
\* docs_batch] and the result [schema, current_properties, propCreates, outcome]
reconcile_schema(acc, doc, index) ==
    ExtendSchema(
        [schema |-> acc.schema, current_properties |-> acc.current_properties,
         propCreates |-> acc.propCreates, outcome |-> "ok"],
        check_document(acc.current_properties, wire_keys(doc)), 1, wire_props(doc), index)

\* line 522: docs_batch.add(_doc, class_name=index, uuid=doc_id, vector=vector)
batch_entry(doc, data_object, index) ==
    [uuid |-> doc_id(doc), class_name |-> index.val, data_object |-> data_object,
     vector |-> normalize_embedding(doc.embedding.val)]

\* lines 518-522, for one document: ext is what reconcile_schema left, dated
\* the document's properties after the date coercion, or its error
enqueue_document(acc, doc, index, ext, dated) ==
    [schema |-> ext.schema,
     current_properties |-> ext.current_properties,
     propCreates |-> ext.propCreates,
     outcome |-> dated.outcome,
     docs_batch |-> IF dated.outcome = "ok"
                    THEN Append(acc.docs_batch, batch_entry(doc, dated.props, index))
                    ELSE acc.docs_batch]

\* lines 518-522, for one document, after reconcile_schema
coerce_and_enqueue(acc, doc, index, ext) ==
    enqueue_document(
        acc, doc, index, ext,
        coerce_dates([props |-> wire_props(doc), outcome |-> ext.outcome],
                     get_date_properties(ext.schema, index), 1))

\* lines 489-522, one document of a batch: acc is [schema,
\* current_properties, propCreates, outcome, docs_batch]
add_document(acc, doc, index) ==
    IF ~vector_is_embedding(doc) THEN [acc EXCEPT !.outcome = "AttributeError"]
    ELSE coerce_and_enqueue(acc, doc, index, reconcile_schema(acc, doc, index))

\* lines 488-522: the documents first..last are added to a new batch
RECURSIVE build_batch(_, _, _, _, _)
build_batch(acc, documents, i, last, index) ==
    IF i > last \/ acc.outcome # "ok" THEN acc
    ELSE build_batch(add_document(acc, documents[i], index), documents, i + 1, last, index)

\* get_batches_from_generator(documents, batch_size): the k-th batch is the
\* documents (k-1)*batch_size+1 .. k*batch_size, the last one maybe shorter
batch_first(k, batch_size) == (k - 1) * batch_size + 1
batch_last(k, batch_size, n) ==
    IF k * batch_size < n THEN k * batch_size ELSE n

\* line 488: a new batch, for the write state w
new_batch(w) ==
    [schema |-> w.schema, current_properties |-> w.current_properties,
     propCreates |-> w.propCreates, outcome |-> "ok", docs_batch |-> <<>>]

\* lines 525-536: the batch built is created in the backend (unless a document
\* of it raised), and the backend's error messages are logged
flush_batch(w, built, failing) ==
    [schema |-> built.schema,
     objects |-> IF built.outcome = "ok"
                 THEN batch_create(w.objects, built.docs_batch, 1, failing)
                 ELSE w.objects,
     current_properties |-> built.current_properties,
     propCreates |-> built.propCreates,
     outcome |-> built.outcome,
     batchCreates |-> IF built.outcome = "ok" THEN w.batchCreates + 1
                      ELSE w.batchCreates,
     enqueued |-> w.enqueued \o built.docs_batch,
     batchErrors |-> IF built.outcome = "ok"
                     THEN w.batchErrors + batch_errors(built.docs_batch, failing)
                     ELSE w.batchErrors]

\* what flush_batch leaves, with an error raised when the backend reported one
raise_on_errors(w, flushed) ==
    IF flushed.batchErrors > w.batchErrors
    THEN [flushed EXCEPT !.outcome = "RuntimeError"]
    ELSE flushed

\* a write loop that raises on the first batch the backend reports errors for
RECURSIVE write_batches_raising_on_errors(_, _, _, _, _, _)
write_batches_raising_on_errors(w, documents, k, batch_size, index, failing) ==
    IF batch_first(k, batch_size) > Len(documents) \/ w.outcome # "ok" THEN w
    ELSE write_batches_raising_on_errors(
           raise_on_errors(
               w,
               flush_batch(w,
                           build_batch(new_batch(w), documents, batch_first(k, batch_size),
                                       batch_last(k, batch_size, Len(documents)), index),
                           failing)),
           documents, k + 1, batch_size, index, failing)

\* lines 487-536, from the k-th batch on: w is [schema, objects,
\* current_properties, propCreates, outcome, batchCreates, enqueued,
\* batchErrors]
RECURSIVE write_batches(_, _, _, _, _, _)
write_batches(w, documents, k, batch_size, index, failing) ==
    IF batch_first(k, batch_size) > Len(documents) \/ w.outcome # "ok" THEN w
    ELSE write_batches(
           flush_batch(w,
                       build_batch(new_batch(w), documents, batch_first(k, batch_size),
                                   batch_last(k, batch_size, Len(documents)), index),
                       failing),
           documents, k + 1, batch_size, index, failing)

\* lines 463-464: the ids of the documents are sanitized one after the other;
\* st is [ids, flag, warnings]
RECURSIVE sanitize_ids(_, _, _, _)
sanitize_ids(st, ids, i, index) ==
    IF i > Len(ids) THEN st
    ELSE sanitize_ids(
           [ids |-> Append(st.ids, sanitize_id(ids[i], index)),
            flag |-> sanitize_id_flag(ids[i], st.flag),
            warnings |-> st.warnings + sanitize_id_warnings(ids[i], st.flag)],
           ids, i + 1, index)

\* lines 473-476: draws of the random generator in one call
dummy_embeddings_drawn(documents) ==
    Cardinality({i \in 1..Len(documents) : ~documents[i].embedding.some})

\* what one call has asked of the backend, and what it has logged
EmptyLog ==
    [keys |-> {}, batchCreates |-> 0, propCreates |-> <<>>, dummyWarnings |-> 0,
     uuidWarnings |-> 0, emptyWarnings |-> 0, enqueued |-> <<>>, remaining |-> 0,
     batchErrors |-> 0, vectorUpdates |-> <<>>, deleted |-> {}]

\* a fail policy that drops the existing documents as skip does, and goes on
apply_duplicate_policy_fail_as_skip(objs, document_objects, index, duplicate_documents) ==
    handle_duplicate_documents(objs, document_objects, index,
        IF duplicate_documents = "fail" THEN "skip" ELSE duplicate_documents)

\* a skip policy that is not handed on: the documents are written as they are
apply_duplicate_policy_skip_as_overwrite(objs, document_objects, index, duplicate_documents) ==
    handle_duplicate_documents(objs, document_objects, index,
        IF duplicate_documents = "skip" THEN "overwrite" ELSE duplicate_documents)

\* lines 466-468: the duplicate policy is applied to the sanitized documents
apply_duplicate_policy(objs, document_objects, index, duplicate_documents) ==
    handle_duplicate_documents(objs, document_objects, index, duplicate_documents)

\* the policy of a call that names none, taken from the docstring ("skip")
\* instead of the constructor's setting
duplicate_documents_or_skip(duplicate_documents) ==
    IF duplicate_documents.some THEN duplicate_documents.val ELSE "skip"

\* line 445: `duplicate_documents or self.duplicate_documents`
duplicate_documents_or_default(duplicate_documents) ==
    IF duplicate_documents.some /\ duplicate_documents.val # ""
    THEN duplicate_documents.val
    ELSE ConfigDuplicateDocuments

\* what write_documents returns when it has run its batches: w is what
\* write_batches left, documents the documents left after duplicate handling
written(w, documents, sanitized, seed) ==
    [schema |-> w.schema, objects |-> w.objects, flag |-> sanitized.flag,
     rng |-> rng_after(seed, dummy_embeddings_drawn(documents)),
     outcome |-> w.outcome,
     log |-> [EmptyLog EXCEPT
                !.keys = {w.enqueued[i].uuid : i \in 1..Len(w.enqueued)},
                !.batchCreates = w.batchCreates,
                !.propCreates = w.propCreates,
                !.dummyWarnings = dummy_embed_warnings(documents),
                !.uuidWarnings = sanitized.warnings,
                !.enqueued = w.enqueued,
                !.remaining = Len(documents),
                !.batchErrors = w.batchErrors]]

\* lines 470-537: dup is what the duplicate handling returned, sanitized the
\* warning flag and the warnings after the last _sanitize_id of the call
write_remaining(sch, objs, index, batch_size, seed, failing, sanitized, dup) ==
    IF dup.outcome # "ok"
    THEN [schema |-> sch, objects |-> objs, flag |-> sanitized.flag,
          rng |-> seed, outcome |-> dup.outcome,
          log |-> [EmptyLog EXCEPT !.uuidWarnings = sanitized.warnings]]
    ELSE written(
           write_batches(
               [schema |-> sch, objects |-> objs,
                current_properties |-> get_current_properties(sch, index),
                propCreates |-> <<>>, outcome |-> "ok", batchCreates |-> 0,
                enqueued |-> <<>>, batchErrors |-> 0],
               fill_dummy_embeddings(dup.documents, seed), 1, batch_size, index, failing),
           dup.documents, sanitized, seed)

\* get_documents_by_id, which the duplicate handling calls under skip and
\* fail, sanitizes the ids of the documents it is given once more
sanitize_again(sanitized, document_objects, index, duplicate_documents) ==
    IF duplicate_documents \in {"skip", "fail"}
    THEN sanitize_ids([ids |-> <<>>, flag |-> sanitized.flag,
                       warnings |-> sanitized.warnings],
                      document_ids(drop_duplicate_documents(document_objects)), 1, index)
    ELSE sanitized

\* lines 466-537, on the documents with their sanitized ids
write_document_objects(sch, objs, document_objects, index, batch_size, duplicate_documents, seed, failing, sanitized) ==
    write_remaining(
        sch, objs, index, batch_size, seed, failing,
        sanitize_again(sanitized, document_objects, index, duplicate_documents),
        apply_duplicate_policy(objs, document_objects, index, duplicate_documents))

\* lines 463-464: every document takes its sanitized id
with_sanitized_ids(documents, ids) ==
    [i \in 1..Len(documents) |-> [documents[i] EXCEPT !.id = ids[i]]]

\* lines 463-537; sanitized is [ids, flag, warnings] of the _sanitize_id calls
write_sanitized(sch, objs, documents, index, batch_size, duplicate_documents, seed, failing, sanitized) ==
    write_document_objects(sch, objs, with_sanitized_ids(documents, sanitized.ids),
                           index, batch_size, duplicate_documents, seed, failing,
                           sanitized)

\* lines 446-537: sch is the schema once the index exists, index the class,
\* duplicate_documents the policy of the call
write_to_index(sch, objs, flag, documents, index, batch_size, duplicate_documents, seed, failing) ==
    IF duplicate_documents \notin duplicate_documents_options
    THEN [schema |-> sch, objects |-> objs, flag |-> flag, rng |-> seed,
          outcome |-> "AssertionError", log |-> EmptyLog]
    ELSE IF Len(documents) = 0
    THEN [schema |-> sch, objects |-> objs, flag |-> flag, rng |-> seed,
          outcome |-> "ok", log |-> [EmptyLog EXCEPT !.emptyWarnings = 1]]
    ELSE write_sanitized(
           sch, objs, documents, index, batch_size, duplicate_documents, seed, failing,
           sanitize_ids([ids |-> <<>>, flag |-> flag, warnings |-> 0],
                        document_ids(documents), 1, index))

\* write_documents(documents, index, batch_size, duplicate_documents), run on
\* backend (sch, objs) by a store whose warning flag is `flag`; `seed` is the
\* state of numpy's generator and `failing` the uuids the backend refuses.
\* The result is [schema, objects, flag, rng, outcome, log].
write_documents(sch, objs, flag, documents, index, batch_size, duplicate_documents, seed, failing) ==
    write_to_index(create_schema_and_index_if_not_exist(sch, index), objs, flag,
                   documents, Some(IndexOrDefault(index)), batch_size,
                   duplicate_documents_or_default(duplicate_documents), seed, failing)

-----------------------------------------------------------------------------
(* update_document_meta.                                                   *)

\* the meta dict as a function from its keys
MetaFn(meta) == [k \in Range(MetaKeys(meta)) |-> MetaGet(meta, k)]

\* lines 557-560: every date property of the schema is read from meta, and
\* converted when a string; st is [props, outcome]
RECURSIVE coerce_meta_dates(_, _, _)
coerce_meta_dates(st, date_fields, i) ==
    IF i > Len(date_fields) \/ st.outcome # "ok" THEN st
    ELSE LET date_field == date_fields[i]
         IN  IF date_field \notin DOMAIN st.props
             THEN [st EXCEPT !.outcome = "KeyError"]
             ELSE IF st.props[date_field].t # "str"
             THEN coerce_meta_dates(st, date_fields, i + 1)
             ELSE IF st.props[date_field].s \notin ParseableDates
             THEN [st EXCEPT !.outcome = "ValueError"]
             ELSE coerce_meta_dates(
                    [st EXCEPT !.props[date_field] =
                        Str(convert_date_to_rfc3339(@.s))],
                    date_fields, i + 1)

\* weaviate_client.data_object.update(data_object, class_name, uuid, vector):
\* the object stored under uuid gets the given properties merged into its
\* own (and the vector, when one is given); refused when nothing is stored
\* under uuid
data_object_update_ok(objs, uuid) == uuid \in DOMAIN objs

\* an update that replaces the properties of the object by those it carries
data_object_replace(objs, data_object, uuid, vector) ==
    [objs EXCEPT ![uuid] =
        [class |-> @.class,
         properties |-> data_object,
         vector |-> IF vector.some THEN vector.val ELSE @.vector]]

data_object_update(objs, data_object, uuid, vector) ==
    [objs EXCEPT ![uuid] =
        [class |-> @.class,
         properties |-> data_object @@ @.properties,
         vector |-> IF vector.some THEN vector.val ELSE @.vector]]

\* the uuid line 562 hands to data_object.update
update_document_meta_uuid(id, index) == id

\* line 562: the update is sent unless an error was raised before; dated is
\* the meta after the date coercion, or the error
send_meta_update(objs, flag, seed, uuid, ext, dated) ==
    [schema |-> ext.schema,
     objects |-> IF dated.outcome = "ok" /\ data_object_update_ok(objs, uuid)
                 THEN data_object_update(objs, dated.props, uuid, NoneVector)
                 ELSE objs,
     flag |-> flag,
     rng |-> seed,
     outcome |-> IF dated.outcome # "ok" THEN dated.outcome
                 ELSE IF ~data_object_update_ok(objs, uuid)
                 THEN "UnexpectedStatusCodeException"
                 ELSE "ok",
     log |-> [EmptyLog EXCEPT !.keys = IF dated.outcome = "ok" THEN {uuid} ELSE {},
                              !.propCreates = ext.propCreates]]

\* lines 556-562; ext is [schema, current_properties, propCreates, outcome]
\* after the missing properties were created
update_meta_after_schema(objs, flag, seed, id, meta, index, ext) ==
    send_meta_update(
        objs, flag, seed, update_document_meta_uuid(id, index), ext,
        coerce_meta_dates([props |-> MetaFn(meta), outcome |-> ext.outcome],
                          get_date_properties(ext.schema, index), 1))

\* lines 547-562; current_properties is what _get_current_properties returned
update_meta_in_index(sch, objs, flag, seed, id, meta, index, current_properties) ==
    update_meta_after_schema(
        objs, flag, seed, id, meta, index,
        ExtendSchema(
            [schema |-> sch, current_properties |-> current_properties,
             propCreates |-> <<>>, outcome |-> "ok"],
            check_document(current_properties, MetaKeys(meta)), 1, MetaFn(meta), index))

\* lines 544-545: `if not index: index = self.index`
index_or_self(index) ==
    IF ~index.some \/ index.val = <<>> THEN Some(self_index) ELSE index

\* update_document_meta(id, meta, index): [schema, objects, flag, rng, outcome, log]
update_document_meta(sch, objs, flag, seed, id, meta, index) ==
    update_meta_in_index(sch, objs, flag, seed, id, meta, index_or_self(index),
                         get_current_properties(sch, index_or_self(index)))

-----------------------------------------------------------------------------
(* Scans, update_embeddings and delete_documents.                          *)

\* a filter is None or one equality {field: value} on a string field
NoneFilter == [some |-> FALSE, val |-> [field |-> "", value |-> ""]]

\* LogicalFilterClause.parse(filters).convert_to_weaviate(), as the backend
\* applies it: the objects of the class whose field equals the value
filter_matches(obj, filters) ==
    \/ ~filters.some
    \/ /\ filters.val.field \in DOMAIN obj.properties
       /\ obj.properties[filters.val.field] = Str(filters.val.value)

\* the uuids of the hits of
\* weaviate_client.query.get(class_name=index, ...)[.with_where(...)]
class_documents(objs, class, filters) ==
    {id \in DOMAIN objs : objs[id].class = class /\ filter_matches(objs[id], filters)}

\* _get_all_documents_in_index(index, filters), for the index a caller names
all_documents_in_index(objs, index, filters) ==
    class_documents(objs, IndexOrDefault(index), filters)

\* the orders in which the backend may return a set of hits
Orders(S) == {o \in [1..Cardinality(S) -> S] : \A i, j \in DOMAIN o : i # j => o[i] # o[j]}

\* lines 1056-1066, from the k-th batch on: u is [objects, outcome,
\* vectorUpdates]; hits are the uuids of the scan, embeddings the vectors
\* retriever.embed_documents returns for them
RECURSIVE update_embedding_batches(_, _, _, _, _)
update_embedding_batches(u, hits, embeddings, k, batch_size) ==
    IF batch_first(k, batch_size) > Len(hits) \/ u.outcome # "ok" THEN u
    ELSE LET first == batch_first(k, batch_size)
             last == batch_last(k, batch_size, Len(hits))
             F[i \in (first - 1)..last] ==
                 IF i = first - 1 THEN u
                 ELSE [objects |-> data_object_update(
                                     F[i - 1].objects, <<>>, hits[i],
                                     Some(normalize_embedding(embeddings[i]))),
                       outcome |-> "ok",
                       vectorUpdates |-> Append(F[i - 1].vectorUpdates,
                                                [uuid |-> hits[i], data_object |-> <<>>,
                                                 vector |-> normalize_embedding(embeddings[i])])]
         IN  IF Len(embeddings[first].elems) # embedding_dim
             THEN [u EXCEPT !.outcome = "RuntimeError"]
             ELSE update_embedding_batches(F[last], hits, embeddings, k + 1, batch_size)

\* update_embeddings(retriever, index, filters, update_existing_embeddings,
\* batch_size): [schema, objects, flag, rng, outcome, log]
update_embeddings(sch, objs, flag, seed, index, filters, update_existing_embeddings, batch_size, hits, embeddings) ==
    LET u == update_embedding_batches(
               [objects |-> objs, outcome |-> "ok", vectorUpdates |-> <<>>],
               hits, embeddings, 1, batch_size)
    IN  IF ~update_existing_embeddings
        THEN [schema |-> sch, objects |-> objs, flag |-> flag, rng |-> seed,
              outcome |-> "RuntimeError", log |-> EmptyLog]
        ELSE [schema |-> sch, objects |-> u.objects, flag |-> flag, rng |-> seed,
              outcome |-> u.outcome,
              log |-> [EmptyLog EXCEPT
                         !.keys = {u.vectorUpdates[i].uuid : i \in 1..Len(u.vectorUpdates)},
                         !.vectorUpdates = u.vectorUpdates]]

\* weaviate_client.schema.delete_class(index): the class goes, and its objects
delete_class_schema(sch, class) == [c \in DOMAIN sch \ {class} |-> sch[c]]
\* a class deletion that leaves the objects of the class in the backend
delete_class_objects_kept(objs, class) == objs

delete_class_objects(objs, class) ==
    [id \in {i \in DOMAIN objs : objs[i].class # class} |-> objs[id]]

\* a delete that takes every hit of the scan, whatever the list of ids
docs_to_delete_any_id(found, ids) == found

\* lines 1169-1174: the uuids delete_documents deletes one by one; found are
\* the hits of get_all_documents and ids is the caller's list
docs_to_delete(found, ids) ==
    IF ids.some /\ ids.val # <<>>
    THEN {id \in found : id \in Range(ids.val)}
    ELSE found

\* lines 1166-1174; sch is the schema once the index exists, class the class
delete_in_class(sch, objs, flag, seed, class, ids, filters) ==
    IF ~filters.some /\ (~ids.some \/ ids.val = <<>>)
    THEN [schema |-> schema_create_if_missing(delete_class_schema(sch, class), class),
          objects |-> delete_class_objects(objs, class),
          flag |-> flag, rng |-> seed, outcome |-> "ok",
          log |-> [EmptyLog EXCEPT !.deleted =
                     {id \in DOMAIN objs : objs[id].class = class}]]
    ELSE [schema |-> sch,
          objects |-> [id \in DOMAIN objs \ docs_to_delete(
                                              class_documents(objs, class, filters), ids)
                          |-> objs[id]],
          flag |-> flag, rng |-> seed, outcome |-> "ok",
          log |-> [EmptyLog EXCEPT !.deleted =
                     docs_to_delete(class_documents(objs, class, filters), ids)]]

\* delete_documents(index, ids, filters): [schema, objects, flag, rng, outcome, log]
delete_documents(sch, objs, flag, seed, index, ids, filters) ==
    delete_in_class(create_schema_and_index_if_not_exist(sch, index), objs, flag, seed,
                    IndexOrDefault(index), ids, filters)

\* delete_all_documents(index, filters)
delete_all_documents(sch, objs, flag, seed, index, filters) ==
    delete_documents(sch, objs, flag, seed, index, None, filters)

-----------------------------------------------------------------------------
(* Read operations.  A read returns [schema, objects, flag, rng, outcome,  *)
(* log] as the other operations do; its log holds what it returned         *)
(* (result) and the queries it sent to the backend.                        *)

\* the log of a read operation
ReadLog(result, queries) == [result |-> result, queries |-> queries] @@ EmptyLog

\* what a read operation leaves: the backend as it was
ReadReturns(sch, objs, flag, seed, outcome, log) ==
    [schema |-> sch, objects |-> objs, flag |-> flag, rng |-> seed,
     outcome |-> outcome, log |-> log]

\* lines 587-603: weaviate_client.query.aggregate(index) "meta { count }",
\* with the filter when one is given
aggregate_count(objs, class, filters) == Cardinality(class_documents(objs, class, filters))

\* a count that asks the backend whatever the caller asked for
get_document_count_always_asking(objs, filters, index, only_documents_without_embedding, headers) ==
    IF headers THEN [count |-> 0, queries |-> 0, outcome |-> "NotImplementedError"]
    ELSE [count |-> aggregate_count(objs, IndexOrDefault(index), filters), queries |-> 1,
          outcome |-> "ok"]

\* get_document_count(filters, index, only_documents_without_embedding,
\* headers): [count, queries, outcome]; headers tells whether the caller gave
\* any (lines 583-584)
get_document_count(objs, filters, index, only_documents_without_embedding, headers) ==
    IF headers THEN [count |-> 0, queries |-> 0, outcome |-> "NotImplementedError"]
    ELSE IF only_documents_without_embedding
    THEN [count |-> 0, queries |-> 0, outcome |-> "ok"]
    ELSE [count |-> aggregate_count(objs, IndexOrDefault(index), filters), queries |-> 1,
          outcome |-> "ok"]

\* get_embedding_count(filters, index): the count of the documents, asked
\* with the defaults of the other two arguments (line 571)
get_embedding_count(objs, filters, index) ==
    get_document_count(objs, filters, index, FALSE, FALSE)

\* get_documents_by_id(ids, index): the documents returned are named by
\* their ids; sanitized is [ids, flag, warnings] of the _sanitize_id calls
\* of line 317
documents_by_id_read(sch, objs, seed, ids, index, sanitized) ==
    ReadReturns(sch, objs, sanitized.flag, seed, "ok",
                [ReadLog(get_documents_by_id_ids(objs, ids, index), Len(ids))
                    EXCEPT !.uuidWarnings = sanitized.warnings])

\* get_documents_by_id(ids, index, headers); with headers it raises before
\* any id is sanitized (lines 310-311)
get_documents_by_id(sch, objs, flag, seed, ids, index, headers) ==
    IF headers
    THEN ReadReturns(sch, objs, flag, seed, "NotImplementedError", ReadLog(<<>>, 0))
    ELSE documents_by_id_read(
           sch, objs, seed, ids, index,
           sanitize_ids([ids |-> <<>>, flag |-> flag, warnings |-> 0], ids, 1, index))

\* get_document_by_id(id, index, headers), lines 287-298: the id is sanitized
\* and fetched with data_object.get_by_id; the document returned is named by
\* its id, and is None when the backend has nothing under it
get_document_by_id(sch, objs, flag, seed, id, index, headers) ==
    IF headers
    THEN ReadReturns(sch, objs, flag, seed, "NotImplementedError",
                     [document |-> None] @@ ReadLog(<<>>, 0))
    ELSE ReadReturns(sch, objs, sanitize_id_flag(id, flag), seed, "ok",
                     [[document |-> IF get_by_id_found(objs, sanitize_id(id, index))
                                    THEN Some(sanitize_id(id, index)) ELSE None]
                         @@ ReadLog(<<>>, 1)
                        EXCEPT !.uuidWarnings = sanitize_id_warnings(id, flag)])

-----------------------------------------------------------------------------
(* Result conversion and the scans that return documents.                  *)

\* return_embedding: bool = False
ConfigReturnEmbedding == FALSE

\* JSON values of a backend result, next to the scalar ones: null, a uuid
\* string, a list of floats, a nested object, a certainty
JNull == [t |-> "null"]
JId(id) == [t |-> "id", v |-> id]
JList(vector) == [t |-> "list", v |-> vector]
JDict(d) == [t |-> "dict", v |-> d]
JCertainty(query_emb, vector) == [t |-> "certainty", v |-> <<query_emb, vector>>]
\* np.asarray(embedding, dtype=np.float32)
NdArray(vector) == [t |-> "ndarray", v |-> vector]

\* dict.get(k)
DictGet(d, k) == IF k \in DOMAIN d THEN d[k] ELSE JNull
\* the dict without the keys in ks
DictWithout(d, ks) == [k \in DOMAIN d \ ks |-> d[k]]

\* one hit of weaviate_client.query.get(class_name, properties): the asked
\* properties at the root (null where the object has none) and _additional
\* {id, certainty, vector}
query_result(obj, uuid, properties, certainty) ==
    [k \in Range(properties) |-> DictGet(obj.properties, k)]
        @@ ("_additional" :> JDict([id |-> JId(uuid), certainty |-> certainty,
                                    vector |-> JList(obj.vector)]))

\* lines 232-234: `props = result.get("properties"); if not props: props = result`
result_props(result) ==
    IF DictGet(result, "properties").t = "dict" /\ DOMAIN result["properties"].v # {}
    THEN result["properties"].v
    ELSE result

\* lines 236-238
result_content(props) ==
    IF DictGet(props, content_field).t # "null"
    THEN json_loads(props[content_field].s)
    ELSE ""

\* lines 240-242: content_type is popped from props unless it is None
result_content_type(props) ==
    IF DictGet(props, "content_type").t # "null"
    THEN Some(props["content_type"].s)
    ELSE NoneText
props_after_content_type(props) ==
    IF DictGet(props, "content_type").t # "null"
    THEN DictWithout(props, {"content_type"})
    ELSE props

\* lines 245-251: the values of _additional, when props has one, come before
\* those of the root
additional_or(props, key, otherwise) ==
    IF "_additional" \in DOMAIN props /\ key \in DOMAIN props["_additional"].v
    THEN props["_additional"].v[key]
    ELSE otherwise

\* lines 257-258: the embedding is converted to an array when it is asked for
\* and not empty; it is handed on in either case
embedding_as_returned(return_embedding, embedding) ==
    IF return_embedding /\ embedding.t = "list" /\ embedding.v.elems # <<>>
    THEN NdArray(embedding.v)
    ELSE embedding

\* Document.from_dict: the document has the fields of the dict
Document_from_dict(dict) == dict

\* lines 244-269, on props once content_type was popped
document_of_props(result, props, content, content_type, return_embedding) ==
    Document_from_dict(
        [id |-> additional_or(props, "id", DictGet(result, "id")),
         content |-> content,
         content_type |-> content_type,
         meta |-> DictWithout(props, {"_additional", content_field, embedding_field}),
         score |-> additional_or(props, "certainty", JNull),
         embedding |-> embedding_as_returned(
                           return_embedding,
                           additional_or(props, "vector", DictGet(result, "vector")))])

\* _convert_weaviate_result_to_document(result, return_embedding)
convert_weaviate_result_to_document(result, return_embedding) ==
    document_of_props(result, props_after_content_type(result_props(result)),
                      result_content(result_props(result)),
                      result_content_type(result_props(result)), return_embedding)

\* lines 737-738 and 944-945: `if return_embedding is None: return_embedding =
\* self.return_embedding`
return_embedding_or_default(return_embedding) ==
    IF return_embedding.some THEN return_embedding.val ELSE ConfigReturnEmbedding

\* the documents converted from the hits, in the order of the hits;
\* certainties holds the certainty the backend reports for each hit
converted_hits(sch, objs, index, hits, certainties, return_embedding) ==
    [i \in 1..Len(hits) |->
        convert_weaviate_result_to_document(
            query_result(objs[hits[i]], hits[i], get_current_properties(sch, index),
                         certainties[i]),
            return_embedding_or_default(return_embedding))]

\* the log of a call that returns documents: the documents, and one query
ScanLog(documents, queries) == [documents |-> documents] @@ ReadLog(<<>>, queries)

\* a scan that first makes sure the index exists, as the writes do
get_all_documents_creating_index(sch, objs, flag, seed, index, filters, return_embedding, headers, hits) ==
    IF headers
    THEN ReadReturns(sch, objs, flag, seed, "NotImplementedError", ScanLog(<<>>, 0))
    ELSE ReadReturns(create_schema_and_index_if_not_exist(sch, index), objs, flag, seed, "ok",
                     ScanLog(converted_hits(sch, objs, index, hits,
                                            [i \in 1..Len(hits) |-> JNull], return_embedding), 1))

\* get_all_documents_generator(index, filters, return_embedding), and
\* get_all_documents, which lists it; hits is the order in which the backend
\* returns the matching objects, with no certainty; headers tells whether
\* the caller gave any (lines 649-650)
get_all_documents(sch, objs, flag, seed, index, filters, return_embedding, headers, hits) ==
    IF headers
    THEN ReadReturns(sch, objs, flag, seed, "NotImplementedError", ScanLog(<<>>, 0))
    ELSE ReadReturns(sch, objs, flag, seed, "ok",
                     ScanLog(converted_hits(sch, objs, index, hits,
                                            [i \in 1..Len(hits) |-> JNull], return_embedding), 1))

\* .with_limit(top_k) on the ranking
with_limit(ranked, top_k) ==
    SubSeq(ranked, 1, IF top_k < Len(ranked) THEN top_k ELSE Len(ranked))

\* lines 965-985, on the hits the backend returns for the normalized query
documents_near(sch, objs, flag, seed, query_emb, index, return_embedding, hits) ==
    ReadReturns(sch, objs, flag, seed, "ok",
                ScanLog(converted_hits(sch, objs, index, hits,
                                       [i \in 1..Len(hits) |->
                                           JCertainty(query_emb, objs[hits[i]].vector)],
                                       return_embedding), 1))

\* query_by_embedding(query_emb, filters, top_k, index, return_embedding,
\* headers); ranked is the backend's ranking of the matching objects by
\* certainty; with headers it raises (lines 941-942)
query_by_embedding(sch, objs, flag, seed, query_emb, filters, top_k, index, return_embedding, headers, ranked) ==
    IF headers
    THEN ReadReturns(sch, objs, flag, seed, "NotImplementedError", ScanLog(<<>>, 0))
    ELSE documents_near(sch, objs, flag, seed, normalize_embedding(query_emb), index,
                        return_embedding, with_limit(ranked, top_k))

\* a custom query is the GraphQL text handed to query.raw; the model's
\* custom queries are Get queries of one class, with the properties and the
\* _additional of line 830, and "" is the text that is falsy
NoCustomQuery == None
custom_query_given(custom_query) == custom_query.some /\ custom_query.val # <<>>

\* lines 849-852: the results are read under the name of the index, so a
\* custom query of another class gives none
custom_query_results(custom_query, index, hits) ==
    IF custom_query.val = IndexOrDefault(index) THEN hits ELSE <<>>

\* lines 854-859: the documents query returns, always with their embedding
query_documents(sch, objs, flag, seed, index, results) ==
    ReadReturns(sch, objs, flag, seed, "ok",
                ScanLog(converted_hits(sch, objs, index, results,
                                       [i \in 1..Len(results) |-> JNull], Some(TRUE)), 1))

\* query(query, filters, top_k, custom_query, index): a custom query goes to
\* query.raw, filters to query.get with the limit top_k, and a call with
\* neither raises; the text of `query` is not used. hits is the order in
\* which the backend returns the objects the request matches
query(sch, objs, flag, seed, query_text, filters, top_k, custom_query, index, hits) ==
    IF custom_query_given(custom_query)
    THEN query_documents(sch, objs, flag, seed, index,
                         custom_query_results(custom_query, index, hits))
    ELSE IF filters.some
    THEN query_documents(sch, objs, flag, seed, index, with_limit(hits, top_k))
    ELSE ReadReturns(sch, objs, flag, seed, "NotImplementedError", ScanLog(<<>>, 0))

-----------------------------------------------------------------------------
(* The store as a state machine: one action per operation.  An operation   *)
(* runs from "idle" as one step and leaves its arguments, the backend it   *)
(* started from and its log in lastCall; Return hands the result to the    *)
(* caller and the store is idle again.                                     *)

Given34 == Some(Vec(<<3, 4>>))
TagNews == <<[key |-> "tag", value |-> Str("news")]>>

DocPlain == [id |-> IdDoc1, content |-> "text_1", embedding |-> NoneVector, meta |-> <<>>]
DocTagged == [id |-> IdDoc1, content |-> "text_2", embedding |-> Given34, meta |-> TagNews]
DocUuid == [id |-> Uuid1, content |-> "text_2", embedding |-> NoneVector, meta |-> <<>>]

\* a document with a meta field that parses as a date
Released2020 == <<[key |-> "released", value |-> Str("2020-01-01")]>>
DocDated == [id |-> IdDoc1, content |-> "text_1", embedding |-> Given34, meta |-> Released2020]

\* a document with a meta item named id
MetaId == <<[key |-> "id", value |-> Str("1bad51b7-bd77-485d-8871-21c50fab248f")]>>
DocMetaId == [id |-> IdDoc1, content |-> "text_2", embedding |-> Given34, meta |-> MetaId]

DocPool == {DocPlain, DocTagged, DocUuid, DocDated, DocMetaId}

\* the document lists of a call: up to MaxDocs different documents of the pool
DocLists ==
    {l \in UNION {[1..n -> DocPool] : n \in 0..MaxDocs} :
        \A i, j \in DOMAIN l : i # j => l[i] # l[j]}

IndexOther == <<"o", "t", "h", "e", "r">>
IndexArgs == {None, Some(IndexOther)}
\* duplicate_documents: Optional[str] = None; "" is a policy that is falsy
PolicyArgs == {NoneText, Some(""), Some("skip"), Some("fail")}

\* batch sizes: one document a batch, or two (when the list has two)
BatchSizes(documents) == IF Len(documents) < 2 THEN {1} ELSE {1, 2}
\* what the backend refuses in a call: nothing, or the object of the first
\* document
FailingFor(documents, index) ==
    IF documents = <<>> THEN {{}} ELSE {{}, {sanitize_id(documents[1].id, index)}}

NoCall == [op |-> "none"]

Backend == [schema |-> schema, objects |-> objects, flag |-> uuid_format_warning_raised,
            rng |-> rng]

Returns(op, args, r) ==
    /\ schema' = r.schema
    /\ objects' = r.objects
    /\ uuid_format_warning_raised' = r.flag
    /\ rng' = r.rng
    /\ lastCall' = [op |-> op, args |-> args, outcome |-> r.outcome, log |-> r.log,
                    pre |-> Backend]
    /\ pc' = "returned"
    /\ nCalls' = nCalls + 1
    /\ UNCHANGED <<san, race>>

CanCall == pc = "idle" /\ nCalls < MaxCalls

WriteDocuments ==
    /\ CanCall
    /\ \E documents \in DocLists, index \in IndexArgs, duplicate_documents \in PolicyArgs :
         \E batch_size \in BatchSizes(documents), failing \in FailingFor(documents, index) :
            Returns("write_documents",
                    [documents |-> documents, index |-> index, batch_size |-> batch_size,
                     duplicate_documents |-> duplicate_documents, failing |-> failing],
                    write_documents(schema, objects, uuid_format_warning_raised, documents,
                                    index, batch_size, duplicate_documents, rng, failing))

MetaArgs == {<<[key |-> "tag", value |-> Str("sports")]>>,
             <<[key |-> "released", value |-> Str("2020-01-01")]>>}
\* ids a caller passes: the id he wrote the document under, or its uuid
CallerIds == {IdDoc1, Uuid1, sanitize_id(IdDoc1, None)}

UpdateDocumentMeta ==
    /\ CanCall
    /\ \E id \in CallerIds, meta \in MetaArgs, index \in IndexArgs :
         Returns("update_document_meta", [id |-> id, meta |-> meta, index |-> index],
                 update_document_meta(schema, objects, uuid_format_warning_raised,
                                      rng, id, meta, index))

\* vectors the retriever returns: one of the store's dimension, one longer
RetrieverVectors == {Vec(<<6, 8>>), Vec(<<1, 2, 2>>)}

UpdateEmbeddings ==
    /\ CanCall
    /\ \E index \in IndexArgs, update_existing_embeddings \in BOOLEAN, batch_size \in 1..2 :
         \E hits \in Orders(all_documents_in_index(objects, index, NoneFilter)) :
           \E embeddings \in [1..Len(hits) -> RetrieverVectors] :
              Returns("update_embeddings",
                      [index |-> index, filters |-> NoneFilter,
                       update_existing_embeddings |-> update_existing_embeddings,
                       batch_size |-> batch_size, hits |-> hits, embeddings |-> embeddings],
                      update_embeddings(schema, objects, uuid_format_warning_raised, rng, index,
                                        NoneFilter, update_existing_embeddings, batch_size,
                                        hits, embeddings))

IdsArgs == {None, Some(<<>>), Some(<<IdDoc1>>), Some(<<sanitize_id(IdDoc1, None)>>),
            Some(<<sanitize_id(IdDoc1, None), Uuid1>>)}
FilterArgs == {NoneFilter, Some([field |-> "tag", value |-> "news"])}

DeleteDocuments ==
    /\ CanCall
    /\ \E index \in IndexArgs, ids \in IdsArgs, filters \in FilterArgs :
         Returns("delete_documents", [index |-> index, ids |-> ids, filters |-> filters],
                 delete_documents(schema, objects, uuid_format_warning_raised, rng,
                                  index, ids, filters))

DeleteAllDocuments ==
    /\ CanCall
    /\ \E index \in IndexArgs :
         Returns("delete_all_documents", [index |-> index, filters |-> NoneFilter],
                 delete_all_documents(schema, objects, uuid_format_warning_raised, rng,
                                      index, NoneFilter))

GetDocumentCount ==
    /\ CanCall
    /\ \E index \in IndexArgs, filters \in FilterArgs, only_documents_without_embedding \in BOOLEAN,
          headers \in BOOLEAN :
         \E r \in {get_document_count(objects, filters, index, only_documents_without_embedding,
                                      headers)} :
            Returns("get_document_count",
                    [index |-> index, filters |-> filters,
                     only_documents_without_embedding |-> only_documents_without_embedding,
                     headers |-> headers],
                    ReadReturns(schema, objects, uuid_format_warning_raised, rng, r.outcome,
                                [count |-> r.count] @@ ReadLog(<<>>, r.queries)))

GetEmbeddingCount ==
    /\ CanCall
    /\ \E index \in IndexArgs, filters \in FilterArgs :
         \E r \in {get_embedding_count(objects, filters, index)} :
            Returns("get_embedding_count", [index |-> index, filters |-> filters],
                    ReadReturns(schema, objects, uuid_format_warning_raised, rng, r.outcome,
                                [count |-> r.count] @@ ReadLog(<<>>, r.queries)))

\* lists of ids a caller looks up: with ids that are not stored, and with an
\* id that comes twice
IdLists == {<<>>, <<IdDoc2>>, <<Uuid1, IdDoc1>>, <<IdDoc1, IdDoc2, IdDoc1>>,
            <<Uuid1, IdDoc2, IdDoc1, Uuid1>>}

GetDocumentsById ==
    /\ CanCall
    /\ \E ids \in IdLists, index \in IndexArgs, headers \in BOOLEAN :
         Returns("get_documents_by_id", [ids |-> ids, index |-> index, headers |-> headers],
                 get_documents_by_id(schema, objects, uuid_format_warning_raised, rng,
                                     ids, index, headers))

\* ids a caller looks up one at a time
IdArgs == {IdDoc1, IdDoc2, Uuid1}

GetDocumentById ==
    /\ CanCall
    /\ \E id \in IdArgs, index \in IndexArgs, headers \in BOOLEAN :
         Returns("get_document_by_id", [id |-> id, index |-> index, headers |-> headers],
                 get_document_by_id(schema, objects, uuid_format_warning_raised, rng,
                                    id, index, headers))

\* return_embedding: Optional[bool] = None
ReturnEmbeddingArgs == {[some |-> FALSE, val |-> FALSE], Some(FALSE), Some(TRUE)}

GetAllDocuments ==
    /\ CanCall
    /\ \E index \in IndexArgs, filters \in FilterArgs, return_embedding \in ReturnEmbeddingArgs,
          headers \in BOOLEAN :
         \E hits \in Orders(all_documents_in_index(objects, index, filters)) :
            Returns("get_all_documents",
                    [index |-> index, filters |-> filters,
                     return_embedding |-> return_embedding, headers |-> headers,
                     hits |-> hits],
                    get_all_documents(schema, objects, uuid_format_warning_raised, rng,
                                      index, filters, return_embedding, headers, hits))

QueryByEmbedding ==
    /\ CanCall
    /\ \E index \in IndexArgs, top_k \in 1..2, return_embedding \in ReturnEmbeddingArgs,
          headers \in BOOLEAN :
         \E ranked \in Orders(all_documents_in_index(objects, index, NoneFilter)) :
            Returns("query_by_embedding",
                    [query_emb |-> Vec(<<3, 4>>), filters |-> NoneFilter, top_k |-> top_k,
                     index |-> index, return_embedding |-> return_embedding,
                     headers |-> headers, ranked |-> ranked],
                    query_by_embedding(schema, objects, uuid_format_warning_raised, rng,
                                       Vec(<<3, 4>>), NoneFilter, top_k, index,
                                       return_embedding, headers, ranked))

\* custom queries a caller passes: none, the empty text, a Get query of the
\* default class or of another class
CustomQueryArgs == {NoCustomQuery, Some(<<>>), Some(self_index),
                    Some(sanitize_index_name_str(IndexOther))}

\* the objects the request of a query call matches in the backend
query_matches(objs, filters, custom_query, index) ==
    IF custom_query_given(custom_query)
    THEN class_documents(objs, custom_query.val, NoneFilter)
    ELSE all_documents_in_index(objs, index, filters)

Query ==
    /\ CanCall
    /\ \E index \in IndexArgs, filters \in FilterArgs, top_k \in 1..2,
          custom_query \in CustomQueryArgs :
         \E hits \in Orders(query_matches(objects, filters, custom_query, index)) :
            Returns("query",
                    [query |-> Some("news"), filters |-> filters, top_k |-> top_k,
                     custom_query |-> custom_query, index |-> index, hits |-> hits],
                    query(schema, objects, uuid_format_warning_raised, rng, Some("news"),
                          filters, top_k, custom_query, index, hits))

Return ==
    /\ pc = "returned"
    /\ pc' = "idle"
    /\ lastCall' = NoCall
    /\ UNCHANGED <<schema, objects, uuid_format_warning_raised, rng, nCalls, san, race>>

\* the state after construction: the class of the configured index exists,
\* with the default schema (line 173), and nothing is stored
Init ==
    /\ schema = create_schema_and_index_if_not_exist(<<>>, Some(self_index))
    /\ objects = <<>>
    /\ uuid_format_warning_raised = FALSE
    /\ rng \in RngStates
    /\ pc = "idle"
    /\ lastCall = NoCall
    /\ nCalls = 0
    /\ san = SanitizeIdle
    /\ race = RaceIdle

Next ==
    \/ WriteDocuments
    \/ UpdateDocumentMeta
    \/ UpdateEmbeddings
    \/ DeleteDocuments
    \/ DeleteAllDocuments
    \/ GetDocumentCount
    \/ GetEmbeddingCount
    \/ GetDocumentById
    \/ GetDocumentsById
    \/ GetAllDocuments
    \/ QueryByEmbedding
    \/ Query
    \/ Return

Spec == Init /\ [][Next]_vars

-----------------------------------------------------------------------------
(* The id normalizer on its own: _sanitize_id is applied to an id under one *)
(* index argument, then under another, then to its own first output.        *)

InitSanitize ==
    /\ schema = create_schema_and_index_if_not_exist(<<>>, Some(self_index))
    /\ objects = <<>>
    /\ uuid_format_warning_raised = FALSE
    /\ rng = 0
    /\ pc = "idle"
    /\ lastCall = NoCall
    /\ nCalls = 0
    /\ \E id \in SanitizeIds, index1 \in SanitizeIndexArgs, index2 \in SanitizeIndexArgs :
          san = [SanitizeIdle EXCEPT !.pc = "start", !.id = id,
                                     !.index1 = index1, !.index2 = index2]
    /\ race = RaceIdle

SanitizeFirst ==
    /\ san.pc = "start"
    /\ san' = [san EXCEPT !.pc = "first",
                          !.out1 = sanitize_id(san.id, san.index1),
                          !.warnings = @ + sanitize_id_warnings(san.id, uuid_format_warning_raised)]
    /\ uuid_format_warning_raised' = sanitize_id_flag(san.id, uuid_format_warning_raised)
    /\ UNCHANGED <<schema, objects, rng, pc, lastCall, nCalls, race>>

SanitizeSecond ==
    /\ san.pc = "first"
    /\ san' = [san EXCEPT !.pc = "second",
                          !.out2 = sanitize_id(san.id, san.index2),
                          !.warnings = @ + sanitize_id_warnings(san.id, uuid_format_warning_raised)]
    /\ uuid_format_warning_raised' = sanitize_id_flag(san.id, uuid_format_warning_raised)
    /\ UNCHANGED <<schema, objects, rng, pc, lastCall, nCalls, race>>

SanitizeAgain ==
    /\ san.pc = "second"
    /\ san' = [san EXCEPT !.pc = "done",
                          !.again = sanitize_id(san.out1, san.index1),
                          !.warnings = @ + sanitize_id_warnings(san.out1, uuid_format_warning_raised)]
    /\ uuid_format_warning_raised' = sanitize_id_flag(san.out1, uuid_format_warning_raised)
    /\ UNCHANGED <<schema, objects, rng, pc, lastCall, nCalls, race>>

NextSanitize ==
    \/ SanitizeFirst
    \/ SanitizeSecond
    \/ SanitizeAgain

SpecSanitize == InitSanitize /\ [][NextSanitize]_vars

-----------------------------------------------------------------------------
(* The type inference on its own: _get_weaviate_type_of_value is applied to *)
(* one value, a scalar or a list of at most MaxListLen scalars.             *)

MaxListLen == 2

Scalar(t, s) == [t |-> t, s |-> s, l |-> <<>>]
ListOf(l) == [t |-> "list", s |-> "", l |-> l]

ScalarValues ==
    {Str("2020-01-01"), Str("news"), Str(""),
     Scalar("int", "0"), Scalar("int", "7"),
     Scalar("float", "0.5"), Scalar("float", "1.0"),
     Scalar("bool", "True"), Scalar("bool", "False")}

TypedValues ==
    ScalarValues \cup {ListOf(l) : l \in UNION {[1..n -> ScalarValues] : n \in 0..MaxListLen}}

\* line 386, `value = value[0]`, raises IndexError on an empty list
type_of_value_call(value) ==
    IF value.t = "list" /\ value.l = <<>>
    THEN [outcome |-> "IndexError", data_type |-> ""]
    ELSE [outcome |-> "ok", data_type |-> get_weaviate_type_of_value(value)]

InitTypeOf ==
    /\ schema = create_schema_and_index_if_not_exist(<<>>, Some(self_index))
    /\ objects = <<>>
    /\ uuid_format_warning_raised = FALSE
    /\ rng = 0
    /\ pc = "calling"
    /\ \E value \in TypedValues :
          lastCall = [op |-> "_get_weaviate_type_of_value", args |-> [value |-> value]]
    /\ nCalls = 0
    /\ san = SanitizeIdle
    /\ race = RaceIdle

GetWeaviateTypeOfValue ==
    /\ pc = "calling"
    /\ \E r \in {type_of_value_call(lastCall.args.value)} :
          lastCall' = [op |-> lastCall.op, args |-> lastCall.args,
                       outcome |-> r.outcome, data_type |-> r.data_type]
    /\ pc' = "returned"
    /\ nCalls' = nCalls + 1
    /\ UNCHANGED <<schema, objects, uuid_format_warning_raised, rng, san, race>>

NextTypeOf == GetWeaviateTypeOfValue

SpecTypeOf == InitTypeOf /\ [][NextTypeOf]_vars

-----------------------------------------------------------------------------
(* The result conversion on its own: _convert_weaviate_result_to_document   *)
(* is applied to the backend's answer for one stored object, in the shape   *)
(* of data_object.get_by_id or in the shape of query.get.                   *)

\* the properties an object may hold, with the value it holds for each
StoredValues ==
    [content |-> Str(json_dumps("text_1")), content_type |-> Str("text"),
     name |-> Str("a.txt"), tag |-> Str("news"), released |-> Str("2020-01-01T00:00:00Z")]

\* the objects of the harness: one for each set of properties
StoredObjects ==
    {[class |-> self_index, properties |-> [k \in ks |-> StoredValues[k]],
      vector |-> normalize_embedding(Vec(<<3, 4>>))] : ks \in SUBSET DOMAIN StoredValues}

\* the properties of the class: every property some object holds
HarnessProperties == <<"name", "content", "content_type", "tag", "released">>

\* weaviate_client.data_object.get_by_id(uuid, with_vector=True): the
\* envelope of the object, its properties nested under "properties"
get_by_id_result(obj, uuid) ==
    [class |-> [t |-> "class", v |-> obj.class],
     creationTimeUnix |-> [t |-> "int", s |-> "1621075584724", l |-> <<>>],
     id |-> JId(uuid),
     properties |-> JDict(obj.properties),
     vector |-> JList(obj.vector)]

InitConvert ==
    /\ schema = create_schema_and_index_if_not_exist(<<>>, Some(self_index))
    /\ objects = <<>>
    /\ uuid_format_warning_raised = FALSE
    /\ rng = 0
    /\ pc = "calling"
    /\ \E obj \in StoredObjects, shape \in {"get_by_id", "query"}, return_embedding \in BOOLEAN :
          lastCall = [op |-> "_convert_weaviate_result_to_document",
                      args |-> [result |-> IF shape = "get_by_id"
                                           THEN get_by_id_result(obj, Uuid1)
                                           ELSE query_result(obj, Uuid1, HarnessProperties, JNull),
                                return_embedding |-> return_embedding,
                                shape |-> shape,
                                stored |-> obj.properties]]
    /\ nCalls = 0
    /\ san = SanitizeIdle
    /\ race = RaceIdle

ConvertWeaviateResultToDocument ==
    /\ pc = "calling"
    /\ lastCall.op = "_convert_weaviate_result_to_document"
    /\ lastCall' = [op |-> lastCall.op, args |-> lastCall.args, outcome |-> "ok",
                    document |-> convert_weaviate_result_to_document(
                                     lastCall.args.result, lastCall.args.return_embedding)]
    /\ pc' = "returned"
    /\ nCalls' = nCalls + 1
    /\ UNCHANGED <<schema, objects, uuid_format_warning_raised, rng, san, race>>

NextConvert == ConvertWeaviateResultToDocument

SpecConvert == InitConvert /\ [][NextConvert]_vars

-----------------------------------------------------------------------------
(* Two write_documents calls on the default index, interleaved at their     *)
(* accesses to the backend: the reading of the property names, each         *)
(* property creation, the reading of the date properties, and the batch     *)
(* creation. Both calls write one batch under the overwrite policy.         *)

DocTagged2 == [DocTagged EXCEPT !.id = IdDoc2]

\* the documents of a call, with the ids write_documents gives them
RaceDocLists ==
    {[i \in DOMAIN l |-> [l[i] EXCEPT !.id = sanitize_id(@, None)]] :
        l \in {<<DocTagged>>, <<DocTagged2>>, <<DocDated>>, <<DocTagged2, DocDated>>}}

RaceIndex == Some(self_index)

\* a call that has not read the property names yet
WriterAtStart(documents) ==
    [pc |-> "start", documents |-> documents, i |-> 1, current_properties |-> <<>>,
     missing |-> <<>>, propCreates |-> <<>>, refused |-> <<>>, docs_batch |-> <<>>,
     outcome |-> "ok"]

InitRace ==
    /\ schema = create_schema_and_index_if_not_exist(<<>>, RaceIndex)
    /\ objects = <<>>
    /\ uuid_format_warning_raised = FALSE
    /\ rng = 0
    /\ pc = "idle"
    /\ lastCall = NoCall
    /\ nCalls = 0
    /\ san = SanitizeIdle
    /\ \E d1 \in RaceDocLists, d2 \in RaceDocLists :
          race = [writer |-> <<WriterAtStart(d1), WriterAtStart(d2)>>, overlapped |-> FALSE]

\* the other call has read the property names and has not ended
InProgress(w) == race.writer[w].pc \notin {"start", "done"}

\* line 510, for the document the call is at: the keys its snapshot lacks
missing_of(writer, current_properties) ==
    IF writer.i > Len(writer.documents) THEN <<>>
    ELSE check_document(current_properties, wire_keys(writer.documents[writer.i]))

\* line 456: the call reads the property names of the index
WriterSnapshot(w) ==
    /\ race.writer[w].pc = "start"
    /\ race' = [race EXCEPT
                  !.writer[w].pc = "adding",
                  !.writer[w].current_properties = get_current_properties(schema, RaceIndex),
                  !.writer[w].missing =
                      missing_of(race.writer[w], get_current_properties(schema, RaceIndex)),
                  !.overlapped = @ \/ InProgress(3 - w)]
    /\ UNCHANGED <<schema, objects, uuid_format_warning_raised, rng, pc, lastCall, nCalls, san>>

\* the call after one property creation; st is what create_missing_property
\* left of [schema, current_properties, propCreates, outcome]
writer_after_request(writer, st) ==
    [writer EXCEPT
        !.pc = IF st.outcome = "ok" THEN "adding" ELSE "done",
        !.current_properties = st.current_properties,
        !.missing = Tail(@),
        !.propCreates = st.propCreates,
        !.refused = IF st.outcome = "ok" THEN @ ELSE Append(@, writer.missing[1]),
        !.outcome = st.outcome]

\* lines 513-515: the call asks the backend for the next property its
\* snapshot lacks
WriterRequest(w) ==
    /\ race.writer[w].pc = "adding"
    /\ race.writer[w].missing # <<>>
    /\ \E st \in {create_missing_property(
                     [schema |-> schema,
                      current_properties |-> race.writer[w].current_properties,
                      propCreates |-> race.writer[w].propCreates, outcome |-> "ok"],
                     race.writer[w].missing[1],
                     wire_props(race.writer[w].documents[race.writer[w].i])[race.writer[w].missing[1]],
                     self_index, RaceIndex)} :
          /\ schema' = st.schema
          /\ race' = [race EXCEPT !.writer[w] = writer_after_request(@, st)]
    /\ UNCHANGED <<objects, uuid_format_warning_raised, rng, pc, lastCall, nCalls, san>>

\* the call after the date coercion of a document; dated is [props, outcome]
writer_after_enqueue(writer, dated) ==
    IF dated.outcome # "ok"
    THEN [writer EXCEPT !.pc = "done", !.outcome = dated.outcome]
    ELSE [writer EXCEPT
            !.i = @ + 1,
            !.docs_batch = Append(@, batch_entry(writer.documents[writer.i], dated.props,
                                                 RaceIndex)),
            !.missing = missing_of([writer EXCEPT !.i = @ + 1], writer.current_properties)]

\* lines 518-522: the call reads the date properties of the index, coerces
\* them in the document and adds the document to its batch
WriterEnqueue(w) ==
    /\ race.writer[w].pc = "adding"
    /\ race.writer[w].missing = <<>>
    /\ race.writer[w].i <= Len(race.writer[w].documents)
    /\ race' = [race EXCEPT !.writer[w] =
                  writer_after_enqueue(
                      @, coerce_dates([props |-> wire_props(@.documents[@.i]), outcome |-> "ok"],
                                      get_date_properties(schema, RaceIndex), 1))]
    /\ UNCHANGED <<schema, objects, uuid_format_warning_raised, rng, pc, lastCall, nCalls, san>>

\* line 525: the call creates its batch in the backend
WriterFlush(w) ==
    /\ race.writer[w].pc = "adding"
    /\ race.writer[w].i > Len(race.writer[w].documents)
    /\ objects' = batch_create(objects, race.writer[w].docs_batch, 1, {})
    /\ race' = [race EXCEPT !.writer[w].pc = "done"]
    /\ UNCHANGED <<schema, uuid_format_warning_raised, rng, pc, lastCall, nCalls, san>>

NextRace ==
    \E w \in 1..2 :
        \/ WriterSnapshot(w)
        \/ WriterRequest(w)
        \/ WriterEnqueue(w)
        \/ WriterFlush(w)

SpecRace == InitRace /\ [][NextRace]_vars

-----------------------------------------------------------------------------
(* Properties.  A property of an operation is stated over the state the    *)
(* operation returns in: lastCall holds its arguments, the backend it      *)
(* started from (pre), its outcome and its log.                            *)

WriteReturned == pc = "returned" /\ lastCall.op = "write_documents"

\* the policy a write_documents call runs under, from its argument
CallPolicy == duplicate_documents_or_default(lastCall.args.duplicate_documents)

\* the class a call addresses
CallClass == IndexOrDefault(lastCall.args.index)

\* the positions of the documents of a write_documents call
CallDocs == DOMAIN lastCall.args.documents

\* the keys the documents of a write_documents call are stored under
CallUuids ==
    [i \in CallDocs |-> sanitize_id(lastCall.args.documents[i].id, lastCall.args.index)]

\* the documents of a write_documents call left after duplicate handling
CallRemaining ==
    handle_duplicate_documents(
        lastCall.pre.objects,
        with_sanitized_ids(lastCall.args.documents, CallUuids),
        Some(CallClass), CallPolicy).documents

\* the first and the last position of key k among uuids
FirstAt(uuids, k) ==
    CHOOSE i \in DOMAIN uuids :
        uuids[i] = k /\ \A j \in DOMAIN uuids : uuids[j] = k => i <= j
LastAt(uuids, k) ==
    CHOOSE i \in DOMAIN uuids :
        uuids[i] = k /\ \A j \in DOMAIN uuids : uuids[j] = k => j <= i

\* the content property of a stored object
StoredContent(objs, k) == objs[k].properties["content"]

Ceil(n, b) == (n + b - 1) \div b

\* C1 (as claimed): every object an operation sends to the backend for
\* creation or update is keyed by a canonical 8-4-4-4-12 hexadecimal UUID.
\* update_document_meta sends the caller's id as it is.
KeysSentAreCanonicalUuids ==
    pc = "returned" => \A k \in lastCall.log.keys : IsCanonicalUuid(k)

\* C2: _sanitize_id returns an id that is a canonical UUID (in either case)
\* unchanged, and applied to its own output it returns that output.
SanitizeIdKeepsUuids ==
    /\ (san.pc \in {"first", "second", "done"} /\ IsCanonicalUuid(san.id))
          => san.out1 = san.id
    /\ san.pc = "done" => san.again = san.out1

\* C2 witness: an upper-case UUID has gone through _sanitize_id twice
SanitizeIdKeepsUuidsWitness ==
    /\ san.pc = "done"
    /\ san.id = Uuid1Upper
    /\ IsCanonicalUuid(san.id)
    /\ san.again = san.id

\* C3 (as claimed): a non-conforming id sanitized under two different index
\* names gives two different ids.
SanitizeIdSeparatesIndexNames ==
    (/\ san.pc \in {"second", "done"}
     /\ ~IsCanonicalUuid(san.id)
     /\ san.index1 # san.index2)
        => san.out1 # san.out2

\* C3 (amended): an id UUID_PATTERN does not match, sanitized under two index
\* arguments that resolve to different class names, gives two different ids.
SanitizeIdSeparatesClasses ==
    (/\ san.pc \in {"second", "done"}
     /\ ~UUID_PATTERN_match(san.id)
     /\ IndexOrDefault(san.index1) # IndexOrDefault(san.index2))
        => san.out1 # san.out2

\* C3 witness: a non-conforming id under the default index and under another
\* class
SanitizeIdSeparatesClassesWitness ==
    /\ san.pc = "done"
    /\ san.id = IdDoc1
    /\ san.index1 = None
    /\ IndexOrDefault(san.index2) # self_index
    /\ IsCanonicalUuid(san.out1) /\ IsCanonicalUuid(san.out2)
    /\ san.out1 # san.out2

\* one of the keys is stored in the backend the call started from
SomeStored(uuids) == \E i \in DOMAIN uuids : uuids[i] \in DOMAIN lastCall.pre.objects

\* a write_documents call under the fail policy, one of whose ids is stored
FailPolicyHit ==
    /\ WriteReturned
    /\ CallPolicy = "fail"
    /\ SomeStored(CallUuids)

\* C4: under the fail policy a call with an id that is already stored raises
\* DuplicateDocumentError before any batch is flushed: nothing is enqueued,
\* the stored objects are as before, no property is created.
FailPolicyWritesNothing ==
    FailPolicyHit =>
        /\ lastCall.outcome = "DuplicateDocumentError"
        /\ objects = lastCall.pre.objects
        /\ lastCall.log.batchCreates = 0
        /\ lastCall.log.enqueued = <<>>
        /\ lastCall.log.propCreates = <<>>
        /\ \A c \in DOMAIN lastCall.pre.schema :
              c \in DOMAIN schema /\ schema[c] = lastCall.pre.schema[c]

\* a document of the call has a new id and a field the properties lack
NewDocumentWithNewField(uuids, properties) ==
    \E i \in DOMAIN uuids :
        /\ uuids[i] \notin DOMAIN lastCall.pre.objects
        /\ check_document(properties, wire_keys(lastCall.args.documents[i])) # <<>>

\* C4 witness: the refused call also held a document with a new id and a
\* field the schema lacks
FailPolicyWritesNothingWitness ==
    /\ FailPolicyHit
    /\ lastCall.outcome = "DuplicateDocumentError"
    /\ CallClass \in DOMAIN lastCall.pre.schema
    /\ NewDocumentWithNewField(
          CallUuids, property_names(class_properties(lastCall.pre.schema, CallClass)))

\* the stored documents of uuids are as before, and the new ones (the first
\* of each id in the call) are stored under the key they were sent with
KeptAndAdded(uuids) ==
    \A i \in DOMAIN uuids :
        /\ uuids[i] \in DOMAIN lastCall.pre.objects
              => /\ uuids[i] \in DOMAIN objects
                 /\ objects[uuids[i]] = lastCall.pre.objects[uuids[i]]
        /\ (/\ uuids[i] \notin DOMAIN lastCall.pre.objects
            /\ i = FirstAt(uuids, uuids[i])
            /\ lastCall.outcome = "ok"
            /\ lastCall.args.failing = {})
              => doc_id([lastCall.args.documents[i] EXCEPT !.id = uuids[i]]) \in DOMAIN objects

\* C5 (as claimed): under the skip policy a stored document whose id comes
\* again is left as it is, and a document with a new id is stored (when the
\* call returns normally and the backend reports no error).
SkipPolicyKeepsExisting ==
    (WriteReturned /\ CallPolicy = "skip") => KeptAndAdded(CallUuids)


\* the objects stored are those of before and those of uuids, one for each
\* key, and each key of uuids holds the content of its last document
StoredOnceWithLastContent(uuids) ==
    /\ DOMAIN objects =
          DOMAIN lastCall.pre.objects
          \cup {uuids[i] : i \in {j \in DOMAIN uuids :
                                     uuids[j] \notin lastCall.args.failing}}
    /\ \A i \in DOMAIN uuids :
          uuids[i] \notin lastCall.args.failing =>
              /\ objects[uuids[i]].class = CallClass
              /\ StoredContent(objects, uuids[i])
                   = Str(json_dumps(
                           lastCall.args.documents[LastAt(uuids, uuids[i])].content))

\* C6 (as claimed): under the overwrite policy a written id is stored once,
\* under its one key, and holds the content of the call: a second write of
\* the same id to the same index replaces the content of the first.
OverwritePolicyReplaces ==
    (WriteReturned /\ CallPolicy = "overwrite" /\ lastCall.outcome = "ok")
        => StoredOnceWithLastContent(CallUuids)


\* C7 (as claimed): when one or more documents of a call lack an embedding
\* the dummy-embedding warning is logged exactly once in that call.
DummyWarningForEveryLackingCall ==
    WriteReturned /\ (\E i \in CallDocs : ~lastCall.args.documents[i].embedding.some)
        => lastCall.log.dummyWarnings = 1

\* every enqueued document is the next of `remaining` and carries a vector,
\* of embedding_dim elements when the document came without an embedding;
\* one warning when a document of `remaining` lacks an embedding, else none
CarryVectors(enqueued, remaining) ==
    /\ Len(enqueued) <= Len(remaining)
    /\ \A i \in DOMAIN enqueued :
          /\ enqueued[i].uuid = doc_id(remaining[i])
          /\ Len(enqueued[i].vector.elems) >= 1
          /\ ~remaining[i].embedding.some
                => Len(enqueued[i].vector.elems) = embedding_dim
    /\ lastCall.log.dummyWarnings =
          IF \E i \in DOMAIN remaining : ~remaining[i].embedding.some THEN 1 ELSE 0

\* C7 (amended): every enqueued document carries a vector, of embedding_dim
\* elements when the document came without an embedding; the dummy-embedding
\* warning is logged once in a call in which a document left after duplicate
\* handling lacks an embedding, and not at all in any other call.
EnqueuedDocumentsCarryVectors ==
    WriteReturned => CarryVectors(lastCall.log.enqueued, CallRemaining)

\* two documents without an embedding are enqueued with vectors
TwoDummyVectors(enqueued, remaining) ==
    /\ Len(enqueued) = 2
    /\ \A i \in 1..2 : ~remaining[i].embedding.some
    /\ \A i \in 1..2 : Len(enqueued[i].vector.elems) = embedding_dim

\* C7 witness: two documents without an embedding have been enqueued by one
\* call, with one warning
EnqueuedDocumentsCarryVectorsWitness ==
    /\ WriteReturned
    /\ lastCall.log.dummyWarnings = 1
    /\ TwoDummyVectors(lastCall.log.enqueued, CallRemaining)

\* every property of every class of schema a is a property of that class in
\* schema b, with the same data type
SchemaGrew(a, b) ==
    \A c \in DOMAIN a :
        /\ c \in DOMAIN b
        /\ \A i \in DOMAIN a[c] : \E j \in DOMAIN b[c] : b[c][j] = a[c][i]

\* C8 (as claimed): across every operation the properties of the schema only
\* grow: none is removed or retyped.
SchemaOnlyGrows ==
    pc = "returned" => SchemaGrew(lastCall.pre.schema, schema)

\* a delete call with neither ids nor filters
FullWipe ==
    \/ /\ lastCall.op = "delete_documents"
       /\ ~lastCall.args.filters.some
       /\ ~lastCall.args.ids.some \/ lastCall.args.ids.val = <<>>
    \/ /\ lastCall.op = "delete_all_documents"
       /\ ~lastCall.args.filters.some

\* C8 (amended): across every operation but a delete with neither ids nor
\* filters the properties of the schema only grow; that delete leaves the
\* class of its index with the default properties alone, and the other
\* classes as they were.
SchemaOnlyGrowsButForFullWipe ==
    pc = "returned" =>
        IF FullWipe
        THEN /\ schema[CallClass] = DefaultProperties
             /\ \A c \in DOMAIN lastCall.pre.schema \ {CallClass} :
                   c \in DOMAIN schema /\ schema[c] = lastCall.pre.schema[c]
        ELSE SchemaGrew(lastCall.pre.schema, schema)

\* C8 witness: an operation has added a property to a class that already had
\* a property of its own
SchemaOnlyGrowsButForFullWipeWitness ==
    /\ pc = "returned"
    /\ ~FullWipe
    /\ CallClass \in DOMAIN lastCall.pre.schema
    /\ Len(lastCall.pre.schema[CallClass]) > Len(DefaultProperties)
    /\ Len(schema[CallClass]) > Len(lastCall.pre.schema[CallClass])

\* C9 (as claimed): when a flush reports per-object errors, the write of n
\* documents with batch size b has issued ceil(n / b) batch-creates and has
\* returned normally.
FlushErrorsKeepBatchCount ==
    WriteReturned /\ lastCall.log.batchErrors > 0 =>
        /\ lastCall.outcome = "ok"
        /\ lastCall.log.batchCreates
              = Ceil(Len(lastCall.args.documents), lastCall.args.batch_size)

\* the same call on the same backend, had the backend refused no object
CleanRun ==
    write_documents(lastCall.pre.schema, lastCall.pre.objects, lastCall.pre.flag,
                    lastCall.args.documents, lastCall.args.index,
                    lastCall.args.batch_size, lastCall.args.duplicate_documents,
                    lastCall.pre.rng, {})

\* the call has the outcome, the batches and the schema of the run `clean`
SameButForErrors(clean) ==
    /\ lastCall.outcome = clean.outcome
    /\ lastCall.log.batchCreates = clean.log.batchCreates
    /\ lastCall.log.enqueued = clean.log.enqueued
    /\ schema = clean.schema

\* C9 (amended): the per-object errors of a flush change neither the outcome
\* of the call nor the batch-creates it issues nor the schema, and a call
\* that returns normally has issued ceil(m / b) batch-creates for the m
\* documents left after duplicate handling.
FlushErrorsDoNotAbort ==
    WriteReturned =>
        /\ SameButForErrors(CleanRun)
        /\ lastCall.outcome = "ok" =>
              lastCall.log.batchCreates
                 = Ceil(Len(CallRemaining), lastCall.args.batch_size)

\* C9 witness: the first of two batches had an error, and the second batch
\* was created all the same
FlushErrorsDoNotAbortWitness ==
    /\ WriteReturned
    /\ lastCall.log.batchErrors > 0
    /\ lastCall.args.batch_size = 1
    /\ lastCall.log.enqueued[1].uuid \in lastCall.args.failing
    /\ lastCall.log.batchCreates = 2
    /\ lastCall.outcome = "ok"
    /\ lastCall.log.enqueued[2].uuid \in DOMAIN objects

\* C10 (as claimed): write_documents with an empty list is a no-op: a
\* warning, and no class creation, no property addition, no batch-create.
EmptyWriteIsNoOp ==
    WriteReturned /\ lastCall.args.documents = <<>> =>
        /\ lastCall.outcome = "ok"
        /\ lastCall.log.emptyWarnings = 1
        /\ lastCall.log.batchCreates = 0
        /\ lastCall.log.propCreates = <<>>
        /\ objects = lastCall.pre.objects
        /\ schema = lastCall.pre.schema

\* a returned delete with neither ids nor filters
FullWipeReturned == pc = "returned" /\ FullWipe /\ lastCall.outcome = "ok"

\* a write of `documents` to the index of the call, under the store's policy
\* and with no object refused, enqueues every one of them and stores what it
\* enqueued in that index
WriteSucceeds(w, documents) ==
    /\ w.outcome = "ok"
    /\ Len(w.log.enqueued) = Len(documents)
    /\ \A k \in w.log.keys : k \in DOMAIN w.objects /\ w.objects[k].class = CallClass

\* C11: delete_documents with neither ids nor filters leaves no document in
\* the index and leaves the index existing: get_document_count then returns
\* 0 and a write_documents of a document to the index succeeds.
FullWipeLeavesUsableIndex ==
    FullWipeReturned =>
        /\ CallClass \in DOMAIN schema
        /\ \A id \in DOMAIN objects : objects[id].class # CallClass
        /\ get_document_count(objects, NoneFilter, lastCall.args.index, FALSE, FALSE).count = 0
        /\ \A d \in DocPool :
              WriteSucceeds(
                  write_documents(schema, objects, uuid_format_warning_raised, <<d>>,
                                  lastCall.args.index, 1, NoneText, rng, {}),
                  <<d>>)

\* C11 witness: the index held a document, and a property of its own, when
\* it was wiped
FullWipeLeavesUsableIndexWitness ==
    /\ FullWipeReturned
    /\ lastCall.op = "delete_documents"
    /\ CallClass \in DOMAIN lastCall.pre.schema
    /\ Len(lastCall.pre.schema[CallClass]) > Len(DefaultProperties)
    /\ \E id \in DOMAIN lastCall.pre.objects : lastCall.pre.objects[id].class = CallClass
    /\ schema[CallClass] = DefaultProperties

\* a returned delete_documents call with a non-empty list of ids
DeleteByIdsReturned ==
    /\ pc = "returned"
    /\ lastCall.op = "delete_documents"
    /\ lastCall.args.ids.some
    /\ lastCall.args.ids.val # <<>>

\* the keys of the documents of the index of the call that were written
\* under the ids of the call, among those that match the filters of the call
WrittenUnderIds ==
    {k \in class_documents(lastCall.pre.objects, CallClass, lastCall.args.filters) :
        \E i \in DOMAIN lastCall.args.ids.val :
            k = sanitize_id(lastCall.args.ids.val[i], lastCall.args.index)}

\* the documents of `gone` are stored no more, and all the others are
RemovedExactly(gone) ==
    /\ DOMAIN objects = DOMAIN lastCall.pre.objects \ gone
    /\ \A k \in DOMAIN objects : objects[k] = lastCall.pre.objects[k]
    /\ get_document_count(objects, NoneFilter, lastCall.args.index, FALSE, FALSE).count
          = get_document_count(lastCall.pre.objects, NoneFilter, lastCall.args.index,
                               FALSE, FALSE).count - Cardinality(gone)

\* C12 (as claimed): delete_documents(ids=L) removes exactly the stored
\* documents that were written under the ids of L, also when these ids are
\* not UUIDs: the count drops by their number and they are found no more.
DeleteByIdsRemovesWritten ==
    (DeleteByIdsReturned /\ ~lastCall.args.filters.some) => RemovedExactly(WrittenUnderIds)

\* the keys of the documents of the index of the call that match the filters
\* of the call and whose id is in the list of the call
MatchingAndListed ==
    {k \in class_documents(lastCall.pre.objects, CallClass, lastCall.args.filters) :
        \E i \in DOMAIN lastCall.args.ids.val : k = lastCall.args.ids.val[i]}

\* C13: delete_documents with a non-empty list of ids and with filters
\* deletes exactly the documents that match the filters and whose id is in
\* the list; the documents that meet only one of the two conditions stay.
DeleteByIdsAndFiltersIntersects ==
    (DeleteByIdsReturned /\ lastCall.args.filters.some) => RemovedExactly(MatchingAndListed)

\* C13 witness: of two listed documents the one that matches the filters has
\* been deleted, and the other one is still stored
DeleteByIdsAndFiltersIntersectsWitness ==
    /\ DeleteByIdsReturned
    /\ lastCall.args.filters.some
    /\ Len(lastCall.args.ids.val) = 2
    /\ \A i \in 1..2 : lastCall.args.ids.val[i] \in DOMAIN lastCall.pre.objects
    /\ lastCall.args.ids.val[1] \notin DOMAIN objects
    /\ lastCall.args.ids.val[2] \in DOMAIN objects

\* the positions of `keys` whose key is stored
FoundPositions(keys) == {i \in DOMAIN keys : keys[i] \in DOMAIN objects}

\* the k-th position of the set `pos`, in increasing order
NthPosition(pos, k) == CHOOSE i \in pos : Cardinality({j \in pos : j <= i}) = k

\* result holds the keys at the positions `pos` of `keys`, in their order
HoldsInOrder(result, keys, pos) ==
    /\ Len(result) = Cardinality(pos)
    /\ \A k \in DOMAIN result : result[k] = keys[NthPosition(pos, k)]

\* the keys get_documents_by_id looks up, one for each id of its list
LookedUp ==
    [i \in DOMAIN lastCall.args.ids |->
        sanitize_id(lastCall.args.ids[i], lastCall.args.index)]

\* result is `keys` without the keys that are not stored
FoundInInputOrder(result, keys) == HoldsInOrder(result, keys, FoundPositions(keys))

\* C14: get_documents_by_id returns the found documents in the order of its
\* list of ids: an id that is not in the backend gives no element, and the
\* found ids keep their order and their multiplicity.
GetDocumentsByIdKeepsOrder ==
    (pc = "returned" /\ lastCall.op = "get_documents_by_id" /\ ~lastCall.args.headers)
        => /\ lastCall.outcome = "ok"
           /\ FoundInInputOrder(lastCall.log.result, LookedUp)

\* C14 witness: of four ids one was absent, and one was found twice
GetDocumentsByIdKeepsOrderWitness ==
    /\ pc = "returned"
    /\ lastCall.op = "get_documents_by_id"
    /\ Len(lastCall.args.ids) = 4
    /\ Len(lastCall.log.result) = 3
    /\ lastCall.log.result[1] = lastCall.log.result[3]
    /\ lastCall.log.result[1] # lastCall.log.result[2]

\* a returned get_document_count(only_documents_without_embedding=True) of
\* a caller that gave no headers
CountWithoutEmbeddingReturned ==
    /\ pc = "returned"
    /\ lastCall.op = "get_document_count"
    /\ lastCall.args.only_documents_without_embedding
    /\ ~lastCall.args.headers

\* C15: get_document_count with only_documents_without_embedding=True
\* returns 0 for every filters value and every store content, and sends no
\* query to the backend.
CountWithoutEmbeddingIsZero ==
    CountWithoutEmbeddingReturned =>
        /\ lastCall.outcome = "ok"
        /\ lastCall.log.count = 0
        /\ lastCall.log.queries = 0

\* C15 witness: the index held a document that matches the filters of the
\* call
CountWithoutEmbeddingIsZeroWitness ==
    /\ CountWithoutEmbeddingReturned
    /\ lastCall.args.filters.some
    /\ class_documents(objects, CallClass, lastCall.args.filters) # {}
    /\ lastCall.log.count = 0

\* C16 (as claimed): update_embeddings fails with a fatal error whenever a
\* vector the retriever returns has another dimension than embedding_dim,
\* and the call writes no vector of another dimension to the backend.
MismatchingEmbeddingIsFatal ==
    (/\ pc = "returned"
     /\ lastCall.op = "update_embeddings"
     /\ lastCall.args.update_existing_embeddings)
        => /\ (\E i \in DOMAIN lastCall.args.embeddings :
                  Len(lastCall.args.embeddings[i].elems) # embedding_dim)
                => lastCall.outcome = "RuntimeError"
           /\ \A i \in DOMAIN lastCall.log.vectorUpdates :
                  Len(lastCall.log.vectorUpdates[i].vector.elems) = embedding_dim

\* the properties of the object stored under id that the meta of the last
\* call does not name are the ones the object had before the call
UnnamedPropertiesKept(id, named) ==
    /\ id \in DOMAIN objects
    /\ \A p \in DOMAIN lastCall.pre.objects[id].properties \ named :
          /\ p \in DOMAIN objects[id].properties
          /\ objects[id].properties[p] = lastCall.pre.objects[id].properties[p]

\* C17 (as claimed): update_document_meta of a stored document completes for
\* every meta mapping, one that omits the date properties of the schema
\* included, and every stored property the meta does not name keeps its
\* value.
UpdateMetaCompletesAndKeepsOthers ==
    (/\ pc = "returned"
     /\ lastCall.op = "update_document_meta"
     /\ lastCall.args.id \in DOMAIN lastCall.pre.objects
     /\ lastCall.pre.objects[lastCall.args.id].class = index_or_self(lastCall.args.index).val)
        => /\ lastCall.outcome = "ok"
           /\ UnnamedPropertiesKept(lastCall.args.id, Range(MetaKeys(lastCall.args.meta)))

\* the last call returned documents of a scan or of a vector search
DocumentsReturned ==
    /\ pc = "returned"
    /\ lastCall.op \in {"get_all_documents", "query_by_embedding"}
    /\ lastCall.outcome = "ok"

\* C18 (as claimed): when return_embedding resolves to False, the documents
\* get_all_documents, get_all_documents_generator and query_by_embedding
\* return carry no embedding.
NoEmbeddingUnlessAsked ==
    (/\ DocumentsReturned
     /\ ~return_embedding_or_default(lastCall.args.return_embedding))
        => \A i \in DOMAIN lastCall.log.documents : lastCall.log.documents[i].embedding = JNull

\* C19: within one write_documents call the creation of a property is asked
\* of the backend at most once per property name, however many documents of
\* the call, in the same or in a later batch, carry the property.
PropertyCreatedOncePerCall ==
    WriteReturned =>
        \A i, j \in DOMAIN lastCall.log.propCreates :
            lastCall.log.propCreates[i] = lastCall.log.propCreates[j] => i = j

\* C19 witness: a call that created a property for its first document wrote
\* a second document carrying that property in a later batch
PropertyCreatedOncePerCallWitness ==
    /\ WriteReturned
    /\ lastCall.outcome = "ok"
    /\ lastCall.args.batch_size = 1
    /\ Len(lastCall.log.enqueued) = 2
    /\ lastCall.log.propCreates # <<>>
    /\ \A k \in DOMAIN lastCall.log.enqueued :
          lastCall.log.propCreates[1][2] \in DOMAIN lastCall.log.enqueued[k].data_object

-----------------------------------------------------------------------------
(* Claims about the type inference.                                        *)

\* the backend type the precedence gives a scalar; a string that is no date
\* has one of the backend's two text types
ScalarTypes(x) ==
    IF x.t = "str"
    THEN IF x.s \in ParseableDates THEN {"date"} ELSE {"string", "text"}
    ELSE IF x.t = "int" THEN {"int"}
    ELSE IF x.t = "float" THEN {"number"}
    ELSE IF x.t = "bool" THEN {"boolean"}
    ELSE {}

ValueTypes(value) ==
    IF value.t = "list"
    THEN {data_type \o "[]" : data_type \in ScalarTypes(value.l[1])}
    ELSE ScalarTypes(value)

TypeOfReturned ==
    /\ pc = "returned"
    /\ lastCall.op = "_get_weaviate_type_of_value"

\* C20 (as claimed): for every value (a scalar, or a list with a first
\* element) _get_weaviate_type_of_value gives date for a date string, the
\* text type for another string, int for an integer, number for a float and
\* boolean for a boolean, with the list suffix when the value is a list.
TypeFollowsPrecedence ==
    (TypeOfReturned /\ lastCall.args.value # ListOf(<<>>))
        => /\ lastCall.outcome = "ok"
           /\ lastCall.data_type \in ValueTypes(lastCall.args.value)

-----------------------------------------------------------------------------
(* Claims about the result conversion.                                     *)

ConvertReturned ==
    /\ pc = "returned"
    /\ lastCall.op = "_convert_weaviate_result_to_document"

\* the entries of a dict whose value is not None
NonNull(d) == [k \in {j \in DOMAIN d : d[j] # JNull} |-> d[k]]

\* C21 (as claimed): for a result in the shape of get_by_id (an empty
\* `properties` mapping included) and for one in the shape of a query, the
\* meta of the converted document holds exactly the stored properties other
\* than the content field, the embedding field, content_type and
\* _additional, and no key of the backend's envelope.
MetaIsStoredProperties ==
    ConvertReturned =>
        NonNull(lastCall.document.meta)
            = DictWithout(lastCall.args.stored,
                          {content_field, embedding_field, "content_type", "_additional"})

-----------------------------------------------------------------------------
(* Claims about sequences of calls on one store.                           *)

\* C22: over any sequence of operations the warning about ids that are not
\* in uuid format is logged at most once: a call logs it once exactly when
\* it raises the flag of the store, and the flag once raised stays raised.
UuidWarningLoggedOnce ==
    [][/\ uuid_format_warning_raised => uuid_format_warning_raised'
       /\ pc' = "returned" =>
            lastCall'.log.uuidWarnings
                = IF ~uuid_format_warning_raised /\ uuid_format_warning_raised' THEN 1 ELSE 0]_vars

\* C22 witness: the warning had been logged by an earlier call, and the last
\* call sanitized an id that is not in uuid format without logging it
UuidWarningLoggedOnceWitness ==
    /\ pc = "returned"
    /\ lastCall.pre.flag
    /\ lastCall.op = "get_documents_by_id"
    /\ \E i \in DOMAIN lastCall.args.ids : ~UUID_PATTERN_match(lastCall.args.ids[i])
    /\ lastCall.log.uuidWarnings = 0

\* the properties both calls asked the backend to create
AskedByBoth ==
    {p \in Range(race.writer[1].propCreates) : p \in Range(race.writer[2].propCreates)}

\* C23: a property creation for a property the index already has (asked for
\* by both calls, or refused by the backend as present) happens only when
\* the two write_documents calls overlapped; it is reachable when they do.
DuplicateCreationNeedsOverlap ==
    (/\ race.writer # <<>>
     /\ \/ AskedByBoth # {}
        \/ \E w \in 1..2 : race.writer[w].refused # <<>>)
        => race.overlapped

\* C23 witness: the calls overlapped, both asked for the creation of the
\* same property, and the backend refused the later request
DuplicateCreationNeedsOverlapWitness ==
    /\ race.writer # <<>>
    /\ race.overlapped
    /\ \E w \in 1..2 :
          /\ race.writer[w].outcome = "UnexpectedStatusCodeException"
          /\ race.writer[w].refused # <<>>
          /\ <<self_index, race.writer[w].refused[1]>> \in AskedByBoth

\* C24 (as claimed): when delete_documents is given a list of ids, the empty
\* list included, every stored document whose id is not in the list is still
\* stored after the call.
DeleteByIdsSparesOthers ==
    (/\ pc = "returned"
     /\ lastCall.op = "delete_documents"
     /\ lastCall.args.ids.some)
        => \A id \in DOMAIN lastCall.pre.objects \ Range(lastCall.args.ids.val) :
              /\ id \in DOMAIN objects
              /\ objects[id] = lastCall.pre.objects[id]

\* C25 (as claimed): once the class of the index has a date property, a
\* write_documents call with a document that does not carry the property
\* still succeeds, and the document is stored.
WriteWithoutDatePropertySucceeds ==
    (/\ WriteReturned
     /\ CallPolicy # "fail"
     /\ lastCall.args.failing = {}
     /\ get_date_properties(lastCall.pre.schema, lastCall.args.index) # <<>>
     /\ \E i \in DOMAIN lastCall.args.documents :
           Range(get_date_properties(lastCall.pre.schema, lastCall.args.index))
               \cap Range(MetaKeys(lastCall.args.documents[i].meta)) = {})
        => /\ lastCall.outcome = "ok"
           /\ \A k \in lastCall.log.keys : k \in DOMAIN objects

\* C26 (as claimed): get_document_by_id(id, index=X) and
\* get_documents_by_id(ids, index=X) return only documents stored in index
\* X, for ids in uuid format as for other ids.
GetByIdStaysInIndex ==
    /\ (pc = "returned" /\ lastCall.op = "get_documents_by_id")
          => \A i \in DOMAIN lastCall.log.result :
                objects[lastCall.log.result[i]].class = CallClass
    /\ (pc = "returned" /\ lastCall.op = "get_document_by_id"
                         /\ lastCall.log.document.some)
          => objects[lastCall.log.document.val].class = CallClass

ReadOperations ==
    {"get_document_by_id", "get_documents_by_id", "get_all_documents", "get_document_count",
     "get_embedding_count", "query", "query_by_embedding"}

\* C27: a read operation leaves the backend as it was, whether it returns
\* or raises: the schema, the stored documents and their vectors are those
\* from before the call.
ReadsLeaveBackendUnchanged ==
    (pc = "returned" /\ lastCall.op \in ReadOperations)
        => /\ schema = lastCall.pre.schema
           /\ objects = lastCall.pre.objects

\* C27 witness: a query with neither filters nor a custom query raised, on
\* a store that holds documents in an index other than the one it named,
\* whose class the backend does not have
ReadsLeaveBackendUnchangedWitness ==
    /\ pc = "returned"
    /\ lastCall.op = "query"
    /\ lastCall.outcome = "NotImplementedError"
    /\ CallClass \notin DOMAIN schema
    /\ objects # <<>>

\* C28: update_embeddings sends vector-only updates: every update it sends
\* carries no property, every stored document keeps its class and its
\* properties, no document is created or deleted, only the documents it
\* sent an update for may have another vector, and with
\* update_existing_embeddings=False it raises without sending any update.
UpdateEmbeddingsVectorOnly ==
    (pc = "returned" /\ lastCall.op = "update_embeddings")
        => /\ schema = lastCall.pre.schema
           /\ DOMAIN objects = DOMAIN lastCall.pre.objects
           /\ \A id \in DOMAIN objects :
                 /\ objects[id].class = lastCall.pre.objects[id].class
                 /\ objects[id].properties = lastCall.pre.objects[id].properties
                 /\ objects[id].vector # lastCall.pre.objects[id].vector
                      => id \in lastCall.log.keys
           /\ \A i \in DOMAIN lastCall.log.vectorUpdates :
                 /\ lastCall.log.vectorUpdates[i].data_object = <<>>
                 /\ lastCall.log.vectorUpdates[i].uuid \in DOMAIN lastCall.pre.objects
           /\ ~lastCall.args.update_existing_embeddings
                 => /\ lastCall.outcome = "RuntimeError"
                    /\ lastCall.log.vectorUpdates = <<>>
                    /\ objects = lastCall.pre.objects

\* C28 witness: the call gave another vector to a stored document that has
\* a meta property
UpdateEmbeddingsVectorOnlyWitness ==
    /\ pc = "returned"
    /\ lastCall.op = "update_embeddings"
    /\ lastCall.outcome = "ok"
    /\ \E id \in lastCall.log.keys :
          /\ objects[id].vector # lastCall.pre.objects[id].vector
          /\ "tag" \in DOMAIN objects[id].properties
====
